---- MODULE Spec2Model ----
(***************************************************************************)
(* Verification model of the visu2 metadata reconciliation and derived     *)
(* analytics engine (src/src/visu2).                                       *)
(*                                                                         *)
(* Text values (ids, codes, labels) are sequences of one-character         *)
(* strings, so that trimming, lower-casing and the code regexes are        *)
(* computed character by character.  A polars null / Python None is the    *)
(* value Null.                                                             *)
(***************************************************************************)
EXTENDS Integers, Sequences, FiniteSets, TLC

VARIABLES
    pc,                 \* position of the run: which step has been taken
    arg, ret,           \* argument and result of a function applied on its own
    learning_catalog,   \* learning_catalog.json
    zpdes_rules,        \* zpdes_rules.json
    exercises_json,     \* exercises.json
    parquet,            \* the raw attempt events
    frames,             \* the lookup frames build_fact_attempt_core joins against
    joined,             \* the wide rows after the joins, before the final select
    fact_attempt_core,  \* the reconciled fact table
    aggs,               \* the aggregate tables built from the fact table
    nodes_df, edges_df, warnings,  \* the dependency tables and their warnings
    cells               \* the objective-activity matrix cells

textVars == <<arg, ret>>
inputVars == <<learning_catalog, zpdes_rules, exercises_json, parquet>>
deriveVars == <<frames, joined, fact_attempt_core, aggs>>
graphVars == <<nodes_df, edges_df, warnings>>
vars == <<pc, textVars, inputVars, deriveVars, graphVars, cells>>

\* value of a variable the specification at hand does not use
Unused == <<>>

\* polars null / Python None (no text value is equal to it)
Null == <<"null">>

(***************************************************************************)
(* Bounds of the model.                                                    *)
(***************************************************************************)
\* longest raw identifier text fed to the identifier normalisation
MaxIdLen == 4
\* longest mnemonic code text fed to the rules-code decomposition
MaxCodeLen == 6

(***************************************************************************)
(* Text primitives: polars str.strip_chars, str.to_lowercase, str.extract  *)
(***************************************************************************)
RECURSIVE StripLeft(_)
StripLeft(s) ==
    IF s = <<>> THEN s
    ELSE IF Head(s) = " " THEN StripLeft(Tail(s)) ELSE s

RECURSIVE StripRight(_)
StripRight(s) ==
    IF s = <<>> THEN s
    ELSE IF s[Len(s)] = " " THEN StripRight(SubSeq(s, 1, Len(s) - 1)) ELSE s

strip_chars(s) == StripRight(StripLeft(s))

\* the characters of the texts of the model, in code point order
Chars ==
    <<" ", "(", ")",
      "0", "1", "2", "3", "4", "5", "6", "7", "8", "9",
      "A", "B", "C", "D", "E", "F", "G", "H", "I", "J", "K", "L", "M",
      "N", "O", "P", "Q", "R", "S", "T", "U", "V", "W", "X", "Y", "Z",
      "a", "b", "c", "d", "e", "f", "g", "h", "i", "j", "k", "l", "m",
      "n", "o", "p", "q", "r", "s", "t", "u", "v", "w", "x", "y", "z">>

CharOrd(c) == CHOOSE i \in DOMAIN Chars : Chars[i] = c

LowerChar(c) ==
    IF CharOrd("A") <= CharOrd(c) /\ CharOrd(c) <= CharOrd("Z")
    THEN Chars[CharOrd(c) + (CharOrd("a") - CharOrd("A"))]
    ELSE c

to_lowercase(s) == [i \in 1..Len(s) |-> LowerChar(s[i])]

ID_PLACEHOLDER_VALUES_LOWER ==
    { <<>>,
      <<"n", "o", "n", "e">>,
      <<"n", "u", "l", "l">>,
      <<"n", "a", "n">> }

\* faulty variant: the placeholder test forgets to lower-case
normalized_id_expr_no_lower(v) ==
    IF v = Null THEN Null
    ELSE LET normalized == strip_chars(v)
         IN  IF normalized \in ID_PLACEHOLDER_VALUES_LOWER THEN Null ELSE normalized

normalized_id_expr(v) ==
    IF v = Null THEN Null
    ELSE LET normalized == strip_chars(v)
         IN  IF to_lowercase(normalized) \in ID_PLACEHOLDER_VALUES_LOWER
             THEN Null
             ELSE normalized

IsDigit(c) == c \in {"0", "1", "2", "3", "4", "5", "6", "7", "8", "9"}

\* length of the run of digits of s that starts at position i
RECURSIVE DigitRun(_, _)
DigitRun(s, i) ==
    IF i <= Len(s) /\ IsDigit(s[i]) THEN 1 + DigitRun(s, i + 1) ELSE 0

\* last position of the token <letter>\d+ that starts at position i, 0 when
\* s has no such token there
TokenEnd(s, i, letter) ==
    IF i >= 1 /\ i <= Len(s) /\ s[i] = letter /\ DigitRun(s, i + 1) > 0
    THEN i + DigitRun(s, i + 1)
    ELSE 0

\* str.extract(r"^(M\d+)", 1)
extract_module_code(s) ==
    IF s = Null THEN Null
    ELSE LET m == TokenEnd(s, 1, "M")
         IN  IF m = 0 THEN Null ELSE SubSeq(s, 1, m)

\* str.extract(r"^(M\d+O\d+)", 1)
extract_objective_code(s) ==
    IF s = Null THEN Null
    ELSE LET m == TokenEnd(s, 1, "M")
             o == IF m = 0 THEN 0 ELSE TokenEnd(s, m + 1, "O")
         IN  IF o = 0 THEN Null ELSE SubSeq(s, 1, o)

\* str.extract(r"^(M\d+O\d+A\d+)", 1)
extract_activity_code(s) ==
    IF s = Null THEN Null
    ELSE LET m == TokenEnd(s, 1, "M")
             o == IF m = 0 THEN 0 ELSE TokenEnd(s, m + 1, "O")
             a == IF o = 0 THEN 0 ELSE TokenEnd(s, o + 1, "A")
         IN  IF a = 0 THEN Null ELSE SubSeq(s, 1, a)

\* re.compile(r"^M\d+$")
MODULE_CODE_RE(s) == s # Null /\ Len(s) > 0 /\ TokenEnd(s, 1, "M") = Len(s)

\* re.compile(r"^M\d+O\d+$")
OBJECTIVE_CODE_RE(s) ==
    /\ s # Null
    /\ LET m == TokenEnd(s, 1, "M")
       IN  m # 0 /\ TokenEnd(s, m + 1, "O") = Len(s)

\* re.compile(r"^M\d+O\d+A\d+$")
ACTIVITY_CODE_RE(s) ==
    /\ s # Null
    /\ LET m == TokenEnd(s, 1, "M")
           o == IF m = 0 THEN 0 ELSE TokenEnd(s, m + 1, "O")
       IN  o # 0 /\ TokenEnd(s, o + 1, "A") = Len(s)

(***************************************************************************)
(* Text specification: the pure text functions applied to bounded inputs.  *)
(***************************************************************************)
RECURSIVE SeqsUpTo(_, _)
SeqsUpTo(S, n) ==
    IF n = 0 THEN {<<>>}
    ELSE LET shorter == SeqsUpTo(S, n - 1)
         IN  shorter \cup {Append(s, c) : s \in {t \in shorter : Len(t) = n - 1}, c \in S}

IdAlphabet == {" ", "N", "n", "o", "e", "a", "u", "l", "x"}
CodeAlphabet == {"M", "O", "A", "1", "x"}

RawIdTexts == SeqsUpTo(IdAlphabet, MaxIdLen) \cup {Null}
RawCodeTexts == SeqsUpTo(CodeAlphabet, MaxCodeLen)

InitText ==
    /\ pc = "start"
    /\ arg \in [kind : {"id"}, s : RawIdTexts] \cup [kind : {"code"}, s : RawCodeTexts]
    /\ ret = [kind |-> "none"]
    /\ learning_catalog = Unused /\ zpdes_rules = Unused
    /\ exercises_json = Unused /\ parquet = Unused
    /\ frames = Unused /\ joined = Unused /\ fact_attempt_core = Unused
    /\ aggs = Unused /\ nodes_df = Unused /\ edges_df = Unused
    /\ warnings = Unused /\ cells = Unused

\* with_columns(_normalized_id_expr(col)) on one raw identifier, applied
\* once and once more on its own result
NormalizeId ==
    /\ pc = "start"
    /\ arg.kind = "id"
    /\ ret' = [kind |-> "id",
               once |-> normalized_id_expr(arg.s),
               twice |-> normalized_id_expr(normalized_id_expr(arg.s))]
    /\ pc' = "done"
    /\ UNCHANGED <<arg, inputVars, deriveVars, graphVars, cells>>

\* the three str.extract columns computed from fallback_code_raw
DecomposeCode ==
    /\ pc = "start"
    /\ arg.kind = "code"
    /\ ret' = [kind |-> "code",
               module_code_fallback |-> extract_module_code(arg.s),
               objective_code_fallback |-> extract_objective_code(arg.s),
               activity_code_fallback |-> extract_activity_code(arg.s)]
    /\ pc' = "done"
    /\ UNCHANGED <<arg, inputVars, deriveVars, graphVars, cells>>

NextText == NormalizeId \/ DecomposeCode

SpecText == InitText /\ [][NextText]_vars

(***************************************************************************)
(* Generic helpers over frames (sequences of records).                     *)
(***************************************************************************)
\* pl.coalesce: the first non-null value of a sequence of values
RECURSIVE coalesce(_)
coalesce(vals) ==
    IF vals = <<>> THEN Null
    ELSE IF Head(vals) # Null THEN Head(vals) ELSE coalesce(Tail(vals))

\* concatenation of a sequence of sequences
RECURSIVE Flatten(_)
Flatten(ss) == IF ss = <<>> THEN <<>> ELSE Head(ss) \o Flatten(Tail(ss))

\* the items of a sequence that belong to a set, in their order
RECURSIVE Select(_, _)
Select(items, keep) ==
    IF items = <<>> THEN <<>>
    ELSE (IF Head(items) \in keep THEN <<Head(items)>> ELSE <<>>)
         \o Select(Tail(items), keep)

Range(items) == { items[i] : i \in DOMAIN items }

\* every order in which the rows of a set can come out of an operation that
\* does not keep row order (DataFrame.unique(), group_by)
Orders(S) ==
    { f \in [1..Cardinality(S) -> S] : \A x \in S : \E i \in 1..Cardinality(S) : f[i] = x }

\* positions of the rows of frame whose column col equals the non-null key
\* (a polars join never matches a null key)
MatchIdx(frame, col, key) ==
    IF key = Null THEN {} ELSE { i \in DOMAIN frame : frame[i][col] = key }

FirstIdx(I) == CHOOSE i \in I : \A j \in I : i <= j

(***************************************************************************)
(* Catalog Model: loaders.catalog_to_summary_frames                        *)
(***************************************************************************)
\* loaders._title_short_long, the short title
title_short(title) ==
    IF title.short = Null \/ strip_chars(title.short) = <<>>
    THEN Null
    ELSE strip_chars(title.short)

ObjectiveListings(catalog) ==
    UNION { { <<i, j>> : j \in DOMAIN catalog.modules[i].objectives } :
            i \in DOMAIN catalog.modules }

ActivityListings(catalog) ==
    UNION { { <<p[1], p[2], k>> :
              k \in DOMAIN catalog.modules[p[1]].objectives[p[2]].activities } :
            p \in ObjectiveListings(catalog) }

\* the rows of the frame module_objectives
module_objectives(catalog) ==
    { [module_id |-> catalog.modules[p[1]].id,
       module_code |-> catalog.modules[p[1]].code,
       module_title_short |-> title_short(catalog.modules[p[1]].title),
       objective_id |-> catalog.modules[p[1]].objectives[p[2]].id] :
      p \in ObjectiveListings(catalog) }

\* the rows of the frame objectives
objectives_frame(catalog) ==
    { [objective_id |-> catalog.modules[p[1]].objectives[p[2]].id,
       objective_code |-> catalog.modules[p[1]].objectives[p[2]].code,
       objective_title_short |-> title_short(catalog.modules[p[1]].objectives[p[2]].title)] :
      p \in ObjectiveListings(catalog) }

\* the rows of the frame objective_activities
objective_activities(catalog) ==
    { [objective_id |-> catalog.modules[q[1]].objectives[q[2]].id,
       activity_id |-> catalog.modules[q[1]].objectives[q[2]].activities[q[3]].id] :
      q \in ActivityListings(catalog) }

\* the rows of the frame activities
activities_frame(catalog) ==
    { [activity_id |-> catalog.modules[q[1]].objectives[q[2]].activities[q[3]].id,
       activity_code |-> catalog.modules[q[1]].objectives[q[2]].activities[q[3]].code,
       activity_title_short |->
           title_short(catalog.modules[q[1]].objectives[q[2]].activities[q[3]].title)] :
      q \in ActivityListings(catalog) }

\* objective_activities joined with module_objectives, activities and
\* objectives, then .unique(): the set of distinct joined rows
activity_hierarchy(catalog) ==
    { [objective_id |-> oa.objective_id,
       activity_id |-> oa.activity_id,
       module_id |-> mo.module_id,
       module_code |-> mo.module_code,
       module_label |-> mo.module_title_short,
       activity_code |-> ac.activity_code,
       activity_label |-> ac.activity_title_short,
       objective_code |-> ob.objective_code,
       objective_label |-> ob.objective_title_short] :
      <<oa, mo, ac, ob>> \in
        { t \in objective_activities(catalog) \X module_objectives(catalog)
                  \X activities_frame(catalog) \X objectives_frame(catalog) :
            /\ t[2].objective_id = t[1].objective_id
            /\ t[3].activity_id = t[1].activity_id
            /\ t[4].objective_id = t[1].objective_id } }

(***************************************************************************)
(* Fact Reconciler: the lookup frames of derive.build_fact_attempt_core    *)
(***************************************************************************)
\* derive._hierarchy_map_from_catalog: select(...).unique()
hierarchy_map_from_catalog(catalog) ==
    { [activity_id |-> r.activity_id,
       objective_id_summary |-> r.objective_id,
       objective_label |-> r.objective_label,
       activity_label |-> r.activity_label,
       module_id |-> r.module_id,
       module_code |-> r.module_code,
       module_label |-> r.module_label] : r \in activity_hierarchy(catalog) }

NoLookup ==
    [activity_id |-> Null, activity_label |-> Null, objective_label |-> Null,
     module_label |-> Null, module_code |-> Null, module_id |-> Null,
     objective_id |-> Null]

\* derive._exercise_hierarchy_map_from_catalog; ah is activity_hierarchy in
\* the row order its .unique() produced, of which unique(subset=
\* ["activity_id"], keep="first") keeps the first row of each activity
exercise_hierarchy_map_from_catalog(catalog, ah) ==
    LET valid(x) == x.exercise_id # Null /\ strip_chars(x.exercise_id) # <<>>
        map_df == SelectSeq(catalog.exercise_to_hierarchy, valid)
        lookup(x) ==
            LET I == MatchIdx(ah, "activity_id", x.activity_id)
            IN  IF I = {} THEN NoLookup ELSE ah[FirstIdx(I)]
    IN  [i \in DOMAIN map_df |->
            LET x == map_df[i]
                l == lookup(x)
            IN  [exercise_id |-> x.exercise_id,
                 activity_id_exercise_summary |-> x.activity_id,
                 objective_id_exercise_summary |-> coalesce(<<x.objective_id, l.objective_id>>),
                 module_id_exercise_summary |-> coalesce(<<x.module_id, l.module_id>>),
                 activity_label_exercise_summary |-> l.activity_label,
                 objective_label_exercise_summary |-> l.objective_label,
                 module_label_exercise_summary |-> l.module_label,
                 module_code_exercise_summary |-> l.module_code]]

\* Python's str comparison a < b
RECURSIVE StrLess(_, _)
StrLess(a, b) ==
    IF b = <<>> THEN FALSE
    ELSE IF a = <<>> THEN TRUE
    ELSE IF Head(a) = Head(b) THEN StrLess(Tail(a), Tail(b))
    ELSE CharOrd(Head(a)) < CharOrd(Head(b))

\* derive._code_preference_score, first component
ShapeRank(code) ==
    IF ACTIVITY_CODE_RE(code) THEN 0
    ELSE IF OBJECTIVE_CODE_RE(code) THEN 1
    ELSE IF MODULE_CODE_RE(code) THEN 2
    ELSE 3

\* score(a) <= score(b) for the score (rank, -len, code)
ScoreLeq(a, b) ==
    \/ ShapeRank(a) < ShapeRank(b)
    \/ /\ ShapeRank(a) = ShapeRank(b)
       /\ \/ Len(a) > Len(b)
          \/ Len(a) = Len(b) /\ (a = b \/ StrLess(a, b))

\* score(a) < score(b)
ScoreLess(a, b) == ScoreLeq(a, b) /\ ~ScoreLeq(b, a)

\* sorted(cleaned, key=score)[0] on a non-empty list: the sort is stable, so
\* the result is the first code of the list among those of the least score
RECURSIVE first_sorted(_)
first_sorted(cleaned) ==
    IF Len(cleaned) = 1 THEN cleaned[1]
    ELSE IF \E i \in 2..Len(cleaned) : ScoreLess(cleaned[i], cleaned[1])
         THEN first_sorted(Tail(cleaned))
         ELSE cleaned[1]

\* sorted(codes, key=_code_preference_score)[0] over the cleaned codes,
\* Null when none is left
chosen_code(codes) ==
    LET kept == SelectSeq(codes, LAMBDA code : code # Null /\ strip_chars(code) # <<>>)
        cleaned == [i \in DOMAIN kept |-> strip_chars(kept[i])]
    IN  IF cleaned = <<>> THEN Null ELSE first_sorted(cleaned)

\* derive._rules_id_code_frame: graph_id -> graph_code
rules_id_code_frame(rules) ==
    LET usable(x) ==
            /\ x.id # Null
            /\ strip_chars(x.id) # <<>>
            /\ chosen_code(x.codes) # Null
        kept == SelectSeq(rules.map_id_code.id_to_codes, usable)
    IN  [i \in DOMAIN kept |->
            [graph_id |-> kept[i].id,
             graph_code |-> chosen_code(kept[i].codes)]]

\* derive._catalog_code_frames: the code_to_id rows labelled from the
\* catalog id index, label_fallback = coalesce(short_title, long_title, code)
codes_labeled(catalog, rules) ==
    LET usable(x) ==
            /\ x.code # Null /\ strip_chars(x.code) # <<>>
            /\ x.id # Null /\ strip_chars(x.id) # <<>>
        rows == SelectSeq(rules.map_id_code.code_to_id, usable)
        index == catalog.id_label_index
        entry(id) ==
            LET I == MatchIdx(index, "id", id)
            IN  IF I = {} THEN [short_title |-> Null, long_title |-> Null]
                ELSE index[FirstIdx(I)]
    IN  [i \in DOMAIN rows |->
            [code |-> rows[i].code,
             id |-> rows[i].id,
             label_fallback |->
                 coalesce(<<entry(rows[i].id).short_title,
                            entry(rows[i].id).long_title,
                            rows[i].code>>)]]

module_code_df(catalog, rules) ==
    LET isModule(x) == MODULE_CODE_RE(x.code)
    IN  SelectSeq(codes_labeled(catalog, rules), isModule)

objective_code_df(catalog, rules) ==
    LET isObjective(x) == OBJECTIVE_CODE_RE(x.code)
    IN  SelectSeq(codes_labeled(catalog, rules), isObjective)

activity_code_df(catalog, rules) ==
    LET isActivity(x) == ACTIVITY_CODE_RE(x.code)
    IN  SelectSeq(codes_labeled(catalog, rules), isActivity)

NoHierarchy ==
    [activity_id |-> Null, objective_id_summary |-> Null, objective_label |-> Null,
     activity_label |-> Null, module_id |-> Null, module_code |-> Null,
     module_label |-> Null]

NoExercise ==
    [exercise_id |-> Null, activity_id_exercise_summary |-> Null,
     objective_id_exercise_summary |-> Null, module_id_exercise_summary |-> Null,
     activity_label_exercise_summary |-> Null, objective_label_exercise_summary |-> Null,
     module_label_exercise_summary |-> Null, module_code_exercise_summary |-> Null]

NoCode == [code |-> Null, id |-> Null, label_fallback |-> Null]

NoGraphCode == [graph_id |-> Null, graph_code |-> Null]

\* the row of a key-unique frame a left join attaches, none when no row matches
LookupOne(frame, col, key, none) ==
    LET I == MatchIdx(frame, col, key)
    IN  IF I = {} THEN none ELSE frame[FirstIdx(I)]

\* the four _normalized_id_expr columns of one raw event
normalized_event(e) ==
    [e EXCEPT !.playlist_or_module_id = normalized_id_expr(@),
              !.objective_id = normalized_id_expr(@),
              !.activity_id = normalized_id_expr(@),
              !.exercise_id = normalized_id_expr(@)]

\* derive.py 297-300: the lookup frames, for one row order of each of the
\* two .unique() results
lookup_frames(catalog, rules, hierarchy, ah) ==
    [hierarchy |-> hierarchy,
     exercise_hierarchy |-> exercise_hierarchy_map_from_catalog(catalog, ah),
     graph_id_code |-> rules_id_code_frame(rules),
     module_code_df |-> module_code_df(catalog, rules),
     objective_code_df |-> objective_code_df(catalog, rules),
     activity_code_df |-> activity_code_df(catalog, rules)]

\* derive.py 314-338 for the raw event e, row src of the raw table: ids
\* normalised, left joins with the hierarchy (one row per matching
\* hierarchy row, one row of nulls when none matches), the exercise
\* hierarchy and the four graph-code frames, and fallback_code_raw
join_lookups(e, src, fr) ==
    LET n == normalized_event(e)
        matches(h) == n.activity_id # Null /\ h.activity_id = n.activity_id
        hrows == IF MatchIdx(fr.hierarchy, "activity_id", n.activity_id) = {}
                 THEN <<NoHierarchy>>
                 ELSE SelectSeq(fr.hierarchy, matches)
        x == LookupOne(fr.exercise_hierarchy, "exercise_id", n.exercise_id, NoExercise)
        code(id) == LookupOne(fr.graph_id_code, "graph_id", id, NoGraphCode).graph_code
    IN  [k \in DOMAIN hrows |->
            [src |-> src,
             created_at |-> n.created_at,
             user_id |-> n.user_id,
             playlist_or_module_id |-> n.playlist_or_module_id,
             objective_id |-> n.objective_id,
             activity_id |-> n.activity_id,
             exercise_id |-> n.exercise_id,
             data_correct |-> n.data_correct,
             attempt_number |-> n.attempt_number,
             objective_id_summary |-> hrows[k].objective_id_summary,
             objective_label |-> hrows[k].objective_label,
             activity_label |-> hrows[k].activity_label,
             module_id |-> hrows[k].module_id,
             module_code |-> hrows[k].module_code,
             module_label |-> hrows[k].module_label,
             activity_id_exercise_summary |-> x.activity_id_exercise_summary,
             objective_id_exercise_summary |-> x.objective_id_exercise_summary,
             module_id_exercise_summary |-> x.module_id_exercise_summary,
             activity_label_exercise_summary |-> x.activity_label_exercise_summary,
             objective_label_exercise_summary |-> x.objective_label_exercise_summary,
             module_label_exercise_summary |-> x.module_label_exercise_summary,
             module_code_exercise_summary |-> x.module_code_exercise_summary,
             fallback_code_raw |->
                 coalesce(<<code(n.activity_id), code(n.objective_id),
                            code(n.exercise_id), code(n.playlist_or_module_id)>>)]]

\* derive.py 339-355 for one joined row: the three str.extract columns and
\* the left joins with the three code frames
join_code_frames(w, fr) ==
    LET mcode == extract_module_code(w.fallback_code_raw)
        ocode == extract_objective_code(w.fallback_code_raw)
        acode == extract_activity_code(w.fallback_code_raw)
        md == LookupOne(fr.module_code_df, "code", mcode, NoCode)
        od == LookupOne(fr.objective_code_df, "code", ocode, NoCode)
        ad == LookupOne(fr.activity_code_df, "code", acode, NoCode)
    IN  w @@ [module_code_fallback |-> mcode,
              objective_code_fallback |-> ocode,
              activity_code_fallback |-> acode,
              module_id_fallback |-> md.id,
              module_label_fallback |-> md.label_fallback,
              objective_id_fallback |-> od.id,
              objective_label_fallback |-> od.label_fallback,
              activity_id_fallback |-> ad.id,
              activity_label_fallback |-> ad.label_fallback]

\* faulty variant: the rules fallback is tested on the raw code, not the module code
mapping_source_raw_code(w) ==
    IF w.module_code # Null THEN "catalog_activity"
    ELSE IF w.module_code_exercise_summary # Null THEN "catalog_exercise"
    ELSE IF w.fallback_code_raw # Null THEN "rules_code_fallback"
    ELSE "unmapped"

\* derive.py 357-358 and 418-425
mapping_source(w) ==
    IF w.module_code # Null THEN "catalog_activity"
    ELSE IF w.module_code_exercise_summary # Null THEN "catalog_exercise"
    ELSE IF w.module_code_fallback # Null THEN "rules_code_fallback"
    ELSE "unmapped"

\* faulty variant: the rules fallback is preferred over the catalog values
reconciled_module_fallback_first(w) ==
    [module_code |-> coalesce(<<w.module_code_fallback, w.module_code,
                               w.module_code_exercise_summary>>),
     module_id |-> coalesce(<<w.module_id_fallback, w.module_id,
                             w.module_id_exercise_summary>>),
     module_label |-> coalesce(<<w.module_label_fallback, w.module_label,
                                w.module_label_exercise_summary>>)]

\* derive.py 383-403: module_code, module_id, module_label
reconciled_module(w) ==
    [module_code |-> coalesce(<<w.module_code, w.module_code_exercise_summary,
                               w.module_code_fallback>>),
     module_id |-> coalesce(<<w.module_id, w.module_id_exercise_summary,
                             w.module_id_fallback>>),
     module_label |-> coalesce(<<w.module_label, w.module_label_exercise_summary,
                                w.module_label_fallback>>)]

\* derive.py 359-380 and 404-417: objective and activity ids and labels
reconciled_units(w) ==
    [objective_id_summary |-> coalesce(<<w.objective_id_summary,
                                        w.objective_id_exercise_summary,
                                        w.objective_id_fallback>>),
     activity_id |-> coalesce(<<w.activity_id, w.activity_id_exercise_summary,
                               w.activity_id_fallback>>),
     objective_id |-> coalesce(<<w.objective_id, w.objective_id_summary,
                                w.objective_id_exercise_summary,
                                w.objective_id_fallback>>),
     objective_label |-> coalesce(<<w.objective_label, w.objective_label_exercise_summary,
                                   w.objective_label_fallback>>),
     activity_label |-> coalesce(<<w.activity_label, w.activity_label_exercise_summary,
                                  w.activity_label_fallback>>)]

\* the reconciled row: the with_columns of derive.py 356-427 and the select
fact_row(w) ==
    [created_at |-> w.created_at,
     date_utc |-> w.created_at.day,
     user_id |-> w.user_id,
     playlist_or_module_id |-> w.playlist_or_module_id,
     objective_id |-> reconciled_units(w).objective_id,
     objective_id_summary |-> reconciled_units(w).objective_id_summary,
     objective_label |-> reconciled_units(w).objective_label,
     activity_id |-> reconciled_units(w).activity_id,
     activity_label |-> reconciled_units(w).activity_label,
     exercise_id |-> w.exercise_id,
     data_correct |-> w.data_correct,
     attempt_number |-> w.attempt_number,
     module_id |-> reconciled_module(w).module_id,
     module_code |-> reconciled_module(w).module_code,
     module_label |-> reconciled_module(w).module_label,
     mapping_source |-> mapping_source(w),
     fallback_code_raw |-> w.fallback_code_raw]

(***************************************************************************)
(* Dependency Graph Builder: zpdes_dependencies, the derivation path.      *)
(* A dict is the sequence of its items in insertion order.  A JSON value   *)
(* that may be a number, a text, a list or absent is a record with a kind. *)
(***************************************************************************)
NoNumber == [kind |-> "none"]
Num(n) == [kind |-> "num", v |-> n]

\* zpdes_dependencies._clean_str; the empty text is <<>>
clean_str(value) ==
    IF value = Null THEN <<>>
    ELSE IF strip_chars(value) = <<>> \/ to_lowercase(strip_chars(value)) = <<"n", "a", "n">>
         THEN <<>>
         ELSE strip_chars(value)

\* Python's "a or b" on texts that may be empty or None
Or(a, b) == IF a = Null \/ a = <<>> THEN b ELSE a

\* int() of a text of digits
RECURSIVE ToInt(_)
ToInt(digits) ==
    IF digits = <<>> THEN 0
    ELSE 10 * ToInt(SubSeq(digits, 1, Len(digits) - 1))
         + (CharOrd(digits[Len(digits)]) - CharOrd("0"))

parse_activity_index(node_code) ==
    IF ~ACTIVITY_CODE_RE(clean_str(node_code)) THEN NoNumber
    ELSE Num(ToInt(SubSeq(clean_str(node_code),
                          Len(extract_objective_code(clean_str(node_code))) + 2,
                          Len(clean_str(node_code)))))

parse_objective_code(node_code, node_type) ==
    IF clean_str(node_code) = <<>> THEN Null
    ELSE IF node_type = <<"o", "b", "j", "e", "c", "t", "i", "v", "e">>
            /\ OBJECTIVE_CODE_RE(clean_str(node_code))
         THEN clean_str(node_code)
    ELSE IF ACTIVITY_CODE_RE(clean_str(node_code))
         THEN extract_objective_code(clean_str(node_code))
    ELSE IF OBJECTIVE_CODE_RE(clean_str(node_code)) THEN clean_str(node_code)
    ELSE Null

label_from_catalog_entry(entry, fallback) ==
    IF clean_str(entry.title.short) # <<>> THEN clean_str(entry.title.short)
    ELSE IF clean_str(entry.title.long) # <<>> THEN clean_str(entry.title.long)
    ELSE fallback

node_type_from_code_strict(code) ==
    IF ACTIVITY_CODE_RE(clean_str(code)) THEN "activity"
    ELSE IF OBJECTIVE_CODE_RE(clean_str(code)) THEN "objective"
    ELSE IF MODULE_CODE_RE(clean_str(code)) THEN "module"
    ELSE "unknown"

RECURSIVE is_init_open_from_rule(_)
is_init_open_from_rule(rule_payload) ==
    CASE rule_payload.kind = "list" ->
             \E i \in DOMAIN rule_payload.items :
                 is_init_open_from_rule(rule_payload.items[i])
      [] rule_payload.kind = "num" -> rule_payload.v = 0
      [] rule_payload.kind = "text" -> clean_str(rule_payload.s) = <<"0">>
      [] OTHER -> FALSE

\* zpdes_dependencies._preferred_code_from_list
preferred_code_from_list(codes) ==
    LET kept == SelectSeq(codes, LAMBDA code : clean_str(code) # <<>>)
        cleaned == [i \in DOMAIN kept |-> clean_str(kept[i])]
    IN  IF cleaned = <<>> THEN Null ELSE first_sorted(cleaned)

\* dict[key] = item on a dict kept as the sequence of its items, col being
\* the key column
DictPut(dict, col, item) ==
    IF \E i \in DOMAIN dict : dict[i][col] = item[col]
    THEN [i \in DOMAIN dict |-> IF dict[i][col] = item[col] THEN item ELSE dict[i]]
    ELSE Append(dict, item)

RECURSIVE DictPutAll(_, _, _)
DictPutAll(dict, col, items) ==
    IF items = <<>> THEN dict
    ELSE DictPutAll(DictPut(dict, col, Head(items)), col, Tail(items))

HasKey(dict, col, key) == \E i \in DOMAIN dict : dict[i][col] = key

\* the rows of module_rules of the module code
ModuleRuleHits(rules_payload, module_code) ==
    { i \in DOMAIN rules_payload.module_rules :
      clean_str(rules_payload.module_rules[i].module_code) = clean_str(module_code) }

\* next(row for row in module_rules if row.module_code == module_code_norm),
\* when there is one
module_rule_of(rules_payload, module_code) ==
    rules_payload.module_rules[FirstIdx(ModuleRuleHits(rules_payload, module_code))]

\* id_to_codes_local.get(ident, []): the cleaned codes the module's own
\* code map gives the identifier, in the order of the map
id_to_codes_local(module_rule, ident) ==
    LET usable(x) == clean_str(x.code) # <<>> /\ clean_str(x.id) = ident
        rows == SelectSeq(module_rule.map_id_code, usable)
    IN  [i \in DOMAIN rows |-> clean_str(rows[i].code)]

\* _resolve_code_from_id: the preferred code of an identifier, "" when none
resolve_code_from_id(module_rule, identifier) ==
    IF clean_str(identifier) = <<>> THEN <<>>
    ELSE Or(preferred_code_from_list(id_to_codes_local(module_rule, clean_str(identifier))),
            <<>>)

\* code_to_id_global.get(code)
code_to_id_global(rules_payload, code) ==
    LookupOne(rules_payload.map_id_code.code_to_id, "code", code, [id |-> Null]).id

\* id_to_label.get(identifier): the last index row of the identifier wins
id_to_label(catalog_payload, identifier) ==
    LET hits == { i \in DOMAIN catalog_payload.id_label_index :
                  /\ clean_str(catalog_payload.id_label_index[i].id) # <<>>
                  /\ clean_str(catalog_payload.id_label_index[i].id) = identifier }
        last == CHOOSE i \in hits : \A j \in hits : j <= i
    IN  IF hits = {} THEN Null
        ELSE Or(clean_str(catalog_payload.id_label_index[last].short_title),
                clean_str(catalog_payload.id_label_index[last].long_title))

ObjectiveText == <<"o", "b", "j", "e", "c", "t", "i", "v", "e">>
ActivityText == <<"a", "c", "t", "i", "v", "i", "t", "y">>

Node(module_code, node_id, node_code, node_type, label, objective_code, origin, ghost) ==
    [module_code |-> module_code,
     node_id |-> node_id,
     node_code |-> node_code,
     node_type |-> node_type,
     label |-> label,
     objective_code |-> objective_code,
     activity_index |-> IF node_type = "objective" /\ origin = "catalog"
                        THEN NoNumber ELSE parse_activity_index(node_code),
     init_open |-> FALSE,
     source_primary |-> origin,
     source_enrichment |-> "rules",
     is_ghost |-> ghost]

\* zpdes_dependencies 265-306: the nodes of the catalog module, objective
\* by objective, each followed by its activities
catalog_nodes(module_code, catalog_payload, rules_payload) ==
    LET hits == { i \in DOMAIN catalog_payload.modules :
                  clean_str(catalog_payload.modules[i].code) = clean_str(module_code) }
        objectives == IF hits = {} THEN <<>>
                      ELSE catalog_payload.modules[FirstIdx(hits)].objectives
        id_of(entry) == Or(Or(clean_str(entry.id),
                              code_to_id_global(rules_payload, clean_str(entry.code))),
                           Null)
        activity_nodes(objective) ==
            LET coded(x) == clean_str(x.code) # <<>>
                kept == SelectSeq(objective.activities, coded)
            IN  [i \in DOMAIN kept |->
                    Node(clean_str(module_code), id_of(kept[i]), clean_str(kept[i].code),
                         "activity",
                         label_from_catalog_entry(kept[i], clean_str(kept[i].code)),
                         clean_str(objective.code), "catalog", FALSE)]
        objective_nodes(objective) ==
            IF clean_str(objective.code) = <<>> THEN <<>>
            ELSE << Node(clean_str(module_code), id_of(objective), clean_str(objective.code),
                         "objective",
                         label_from_catalog_entry(objective, clean_str(objective.code)),
                         clean_str(objective.code), "catalog", FALSE) >>
                 \o activity_nodes(objective)
    IN  Flatten([i \in DOMAIN objectives |-> objective_nodes(objectives[i])])

\* the code under which a rule node is filed (zpdes_dependencies 314-319),
\* "" when it has none
rule_node_code(module_rule, node) ==
    IF clean_str(node.code) = <<>> /\ clean_str(node.id) # <<>>
    THEN Or(preferred_code_from_list(id_to_codes_local(module_rule, clean_str(node.id))),
            <<>>)
    ELSE clean_str(node.code)

\* rule_by_code: the rule nodes filed under their code
rule_by_code(module_rule) ==
    LET coded(node) == rule_node_code(module_rule, node) # <<>>
        kept == SelectSeq(module_rule.node_rules, coded)
    IN  DictPutAll(<<>>, "code",
                   [i \in DOMAIN kept |->
                       [code |-> rule_node_code(module_rule, kept[i]), node |-> kept[i]]])

RuleNodeType(code, node) ==
    IF clean_str(node.type) \in {ObjectiveText, ActivityText}
    THEN (IF clean_str(node.type) = ObjectiveText THEN "objective" ELSE "activity")
    ELSE node_type_from_code_strict(code)

\* zpdes_dependencies 311-336: a rule node whose code is objective- or
\* activity-shaped and not yet in the node map is added to it
RECURSIVE overlay_rule_nodes(_, _, _, _, _)
overlay_rule_nodes(node_map, module_code, catalog_payload, module_rule, node_rules) ==
    IF node_rules = <<>> THEN node_map
    ELSE IF /\ rule_node_code(module_rule, Head(node_rules)) # <<>>
            /\ ~HasKey(node_map, "node_code", rule_node_code(module_rule, Head(node_rules)))
            /\ node_type_from_code_strict(rule_node_code(module_rule, Head(node_rules)))
                   \in {"objective", "activity"}
         THEN overlay_rule_nodes(
                  Append(node_map,
                         Node(clean_str(module_code),
                              Or(clean_str(Head(node_rules).id), Null),
                              rule_node_code(module_rule, Head(node_rules)),
                              RuleNodeType(rule_node_code(module_rule, Head(node_rules)),
                                           Head(node_rules)),
                              Or(id_to_label(catalog_payload, clean_str(Head(node_rules).id)),
                                 rule_node_code(module_rule, Head(node_rules))),
                              parse_objective_code(
                                  rule_node_code(module_rule, Head(node_rules)),
                                  Or(clean_str(Head(node_rules).type),
                                     IF node_type_from_code_strict(
                                            rule_node_code(module_rule, Head(node_rules)))
                                        = "objective"
                                     THEN ObjectiveText ELSE ActivityText)),
                              "rules", FALSE)),
                  module_code, catalog_payload, module_rule, Tail(node_rules))
         ELSE overlay_rule_nodes(node_map, module_code, catalog_payload, module_rule,
                                 Tail(node_rules))

\* the edges the rules of one rule node ask for, in the order of the loops
\* of zpdes_dependencies 391-436: requirements, then deact_requirements
requested_edges(module_rule, code, node) ==
    LET activation(req) ==
            [i \in DOMAIN req.sources |->
                [edge_type |-> "activation",
                 from_code |-> resolve_code_from_id(module_rule, req.sources[i].source_id),
                 to_code |-> Or(resolve_code_from_id(module_rule, req.target_id), code),
                 threshold |-> req.sources[i].sr,
                 rule_text |-> "requirements",
                 enrich_lvl |-> req.sources[i].lvl,
                 enrich_sr |-> req.sources[i].sr]]
        deactivation(req) ==
            [i \in DOMAIN req.conditions |->
                [edge_type |-> "deactivation",
                 from_code |-> resolve_code_from_id(module_rule, req.conditions[i].dim),
                 to_code |-> Or(resolve_code_from_id(module_rule, req.target_id), code),
                 threshold |-> req.conditions[i].sr,
                 rule_text |-> "deact_requirements",
                 enrich_lvl |-> req.conditions[i].lvl,
                 enrich_sr |-> req.conditions[i].sr]]
    IN  Flatten([i \in DOMAIN node.rules.requirements |->
                    activation(node.rules.requirements[i])])
        \o Flatten([i \in DOMAIN node.rules.deact_requirements |->
                       deactivation(node.rules.deact_requirements[i])])

\* round(float(threshold), 6) of a threshold given in ten-millionths, in
\* millionths; None stays None.  A value halfway between two millionths
\* goes to the even one here; which way the float goes depends on its
\* binary expansion, and no threshold of the model is such a value.
round_6(threshold) ==
    IF threshold = NoNumber THEN NoNumber
    ELSE IF threshold.v % 10 = 5 /\ (threshold.v \div 10) % 2 = 0
         THEN Num(threshold.v \div 10)
         ELSE Num((threshold.v + 5) \div 10)

\* faulty variant: the dedup key holds the threshold as given, not rounded
add_edge_raw_threshold(module_code, edge_list, e) ==
    IF clean_str(e.from_code) = <<>> \/ clean_str(e.to_code) = <<>> THEN edge_list
    ELSE IF \E i \in DOMAIN edge_list :
                /\ edge_list[i].edge_type = e.edge_type
                /\ edge_list[i].from_node_code = clean_str(e.from_code)
                /\ edge_list[i].to_node_code = clean_str(e.to_code)
                /\ edge_list[i].enrich_sr = e.threshold
         THEN edge_list
    ELSE Append(edge_list,
                [module_code |-> module_code,
                 edge_id |-> <<module_code, e.edge_type, clean_str(e.from_code),
                               clean_str(e.to_code), Len(edge_list) + 1>>,
                 edge_type |-> e.edge_type,
                 from_node_code |-> clean_str(e.from_code),
                 to_node_code |-> clean_str(e.to_code),
                 threshold_type |-> IF e.threshold = NoNumber THEN "unknown"
                                    ELSE "success_rate",
                 threshold_value |-> round_6(e.threshold),
                 rule_text |-> e.rule_text,
                 source_primary |-> "rules",
                 source_enrichment |-> "rules",
                 enrich_lvl |-> e.enrich_lvl,
                 enrich_sr |-> e.enrich_sr])

\* _add_edge: an edge with an empty endpoint or a seen dedup key is not added
add_edge(module_code, edge_list, e) ==
    IF clean_str(e.from_code) = <<>> \/ clean_str(e.to_code) = <<>> THEN edge_list
    ELSE IF \E i \in DOMAIN edge_list :
                /\ edge_list[i].edge_type = e.edge_type
                /\ edge_list[i].from_node_code = clean_str(e.from_code)
                /\ edge_list[i].to_node_code = clean_str(e.to_code)
                /\ edge_list[i].threshold_value = round_6(e.threshold)
         THEN edge_list
    ELSE Append(edge_list,
                [module_code |-> module_code,
                 edge_id |-> <<module_code, e.edge_type, clean_str(e.from_code),
                               clean_str(e.to_code), Len(edge_list) + 1>>,
                 edge_type |-> e.edge_type,
                 from_node_code |-> clean_str(e.from_code),
                 to_node_code |-> clean_str(e.to_code),
                 threshold_type |-> IF e.threshold = NoNumber THEN "unknown"
                                    ELSE "success_rate",
                 threshold_value |-> round_6(e.threshold),
                 rule_text |-> e.rule_text,
                 source_primary |-> "rules",
                 source_enrichment |-> "rules",
                 enrich_lvl |-> e.enrich_lvl,
                 enrich_sr |-> e.enrich_sr])

RECURSIVE add_edges(_, _, _)
add_edges(module_code, edge_list, requested) ==
    IF requested = <<>> THEN edge_list
    ELSE add_edges(module_code, add_edge(module_code, edge_list, Head(requested)),
                   Tail(requested))

(***************************************************************************)
(* Aggregate builders: group_by over the reconciled fact table.  A table   *)
(* is the set of its rows; each row carries the group_by columns of its    *)
(* builder, attempts and unique_students.                                  *)
(***************************************************************************)
\* the columns cols of the row r
Project(r, cols) == [c \in cols |-> r[c]]

\* group_by(cols).agg(pl.len(), n_unique(user_id)) over the rows of a frame
group_by(frame, cols) ==
    { [key |-> k,
       attempts |-> Cardinality({ i \in DOMAIN frame : Project(frame[i], cols) = k }),
       unique_students |->
           Cardinality({ frame[i].user_id :
                         i \in { j \in DOMAIN frame : Project(frame[j], cols) = k } })] :
      k \in { Project(frame[i], cols) : i \in DOMAIN frame } }

\* Expr.mean() as the exact fraction num / den, null over no value
Mean(num, den) == IF den = 0 THEN NoNumber ELSE [kind |-> "frac", num |-> num, den |-> den]

\* the rows of a frame that fall in the group of a key
GroupIdx(frame, key) == { i \in DOMAIN frame : Project(frame[i], DOMAIN key) = key }

\* faulty variant: the first-attempt mean is taken over all rows of the group
first_attempt_mean_diluted(frame, I) ==
    Mean(Cardinality({ i \in I : frame[i].attempt_number = 1 /\ frame[i].data_correct }),
         Cardinality(I))

\* mean of first_attempt_correct_value, which is null on rows whose
\* attempt_number is not 1
first_attempt_mean(frame, I) ==
    Mean(Cardinality({ i \in I : frame[i].attempt_number = 1 /\ frame[i].data_correct }),
         Cardinality({ i \in I : frame[i].attempt_number = 1 }))

\* the sort that ends the builder does not change the set of rows
build_agg_activity_daily_from_fact(frame) ==
    { [key |-> g.key,
       attempts |-> g.attempts,
       unique_students |-> g.unique_students,
       success_rate |->
           Mean(Cardinality({ i \in GroupIdx(frame, g.key) : frame[i].data_correct }),
                Cardinality(GroupIdx(frame, g.key))),
       first_attempt_success_rate |-> first_attempt_mean(frame, GroupIdx(frame, g.key)),
       first_attempt_count |->
           Cardinality({ i \in GroupIdx(frame, g.key) : frame[i].attempt_number = 1 }),
       repeat_attempt_rate |->
           Mean(Cardinality({ i \in GroupIdx(frame, g.key) : frame[i].attempt_number > 1 }),
                Cardinality(GroupIdx(frame, g.key)))] :
      g \in group_by(frame, {"date_utc", "activity_id", "activity_label", "objective_id",
                             "objective_label", "module_id", "module_code",
                             "module_label"}) }

build_agg_objective_daily_from_fact(frame) ==
    group_by(frame, {"date_utc", "objective_id", "objective_label", "module_id",
                     "module_code", "module_label"})

build_agg_student_module_progress_from_fact(frame) ==
    group_by(frame, {"date_utc", "user_id", "module_id", "module_code", "module_label"})

build_agg_module_usage_daily_from_fact(frame) ==
    group_by(frame, {"date_utc", "module_id", "module_code", "module_label"})

build_agg_student_module_exposure_from_fact(frame) ==
    group_by(frame, {"user_id", "module_id", "module_code", "module_label"})

\* faulty variant: the null-module rows of a mapped playlist are kept
build_agg_playlist_module_usage_unfiltered(frame) ==
    group_by(frame, {"playlist_or_module_id", "module_id", "module_code", "module_label"})

\* rows of a playlist that has a mapped module lose their null-module rows
\* before the group_by (the window over playlist_or_module_id keeps the
\* null playlist as one partition)
build_agg_playlist_module_usage_from_fact(frame) ==
    LET playlist_has_mapped_module(r) ==
            \E i \in DOMAIN frame :
                /\ frame[i].playlist_or_module_id = r.playlist_or_module_id
                /\ frame[i].module_code # Null
        kept(r) == ~(playlist_has_mapped_module(r) /\ r.module_code = Null)
    IN  group_by(SelectSeq(frame, kept),
                 {"playlist_or_module_id", "module_id", "module_code", "module_label"})

build_agg_module_activity_usage_from_fact(frame) ==
    group_by(frame, {"module_id", "module_code", "module_label", "activity_id",
                     "activity_label"})

\* derive._exercise_metadata_frame: one row per stripped exercise id
exercise_metadata_frame(payload) ==
    LET usable(x) == x.id # Null /\ strip_chars(x.id) # <<>>
        kept == SelectSeq(payload, usable)
    IN  [i \in DOMAIN kept |->
            [exercise_id |-> strip_chars(kept[i].id),
             exercise_label_meta |-> kept[i].label,
             exercise_type |-> kept[i].type]]

build_agg_exercise_daily_from_fact(frame, payload) ==
    LET meta(r) == LookupOne(exercise_metadata_frame(payload), "exercise_id", r.exercise_id,
                             [exercise_label_meta |-> Null, exercise_type |-> Null])
        labelled == [i \in DOMAIN frame |->
                        [date_utc |-> frame[i].date_utc,
                         user_id |-> frame[i].user_id,
                         module_id |-> frame[i].module_id,
                         module_code |-> frame[i].module_code,
                         module_label |-> frame[i].module_label,
                         objective_id |-> frame[i].objective_id,
                         objective_label |-> frame[i].objective_label,
                         activity_id |-> frame[i].activity_id,
                         activity_label |-> frame[i].activity_label,
                         exercise_id |-> frame[i].exercise_id,
                         exercise_label |-> coalesce(<<meta(frame[i]).exercise_label_meta,
                                                      frame[i].exercise_id>>),
                         exercise_type |-> meta(frame[i]).exercise_type]]
    IN  group_by(labelled, {"date_utc", "module_id", "module_code", "module_label",
                            "objective_id", "objective_label", "activity_id",
                            "activity_label", "exercise_id", "exercise_label",
                            "exercise_type"})

(***************************************************************************)
(* Derivation specification: write_derived_tables builds the fact table    *)
(* from the metadata files and the raw events, then the aggregates.        *)
(***************************************************************************)
\* identifiers, codes and titles of the metadata the runs are fed
a1 == <<"a", "1">>
o1 == <<"o", "1">>
o2 == <<"o", "2">>
m1 == <<"m", "1">>
m2 == <<"m", "2">>
e1 == <<"e", "1">>
g1 == <<"g", "1">>
p1 == <<"p", "1">>
u1 == <<"u", "1">>
u2 == <<"u", "2">>
M1 == <<"M", "1">>
M2 == <<"M", "2">>
M1O1 == <<"M", "1", "O", "1">>
M2O2 == <<"M", "2", "O", "2">>
M1O1A1 == <<"M", "1", "O", "1", "A", "1">>
M1x == <<"M", "1", "x">>
x1 == <<"x", "1">>
NoneText == <<"N", "o", "n", "e">>

Title(chars) == [short |-> chars, long |-> Null]

ActivityA1 ==
    [id |-> a1, code |-> M1O1A1, title |-> Title(<<"A", "c", "t", "1">>),
     exercise_ids |-> <<e1>>]

ModuleM1 ==
    [id |-> m1, code |-> M1, title |-> Title(<<"M", "o", "d", "1">>),
     objectives |-> << [id |-> o1, code |-> M1O1, title |-> Title(<<"O", "b", "j", "1">>),
                        activities |-> <<ActivityA1>>] >>]

\* a second module whose objective lists the activity a1 again
ModuleM2 ==
    [id |-> m2, code |-> M2, title |-> Title(<<"M", "o", "d", "2">>),
     objectives |-> << [id |-> o2, code |-> M2O2, title |-> Title(<<"O", "b", "j", "2">>),
                        activities |-> <<ActivityA1>>] >>]

Trees == { <<ModuleM1>>, <<ModuleM1, ModuleM2>> }

\* the flat map entry of the exercise e1: complete, without its activity,
\* or with its activity only
ExerciseMaps ==
    { << [exercise_id |-> e1, activity_id |-> a1, objective_id |-> o1, module_id |-> m1] >>,
      << [exercise_id |-> e1, activity_id |-> Null, objective_id |-> o1, module_id |-> m1] >>,
      << [exercise_id |-> e1, activity_id |-> a1, objective_id |-> Null, module_id |-> Null] >> }

\* id_label_index carries its own titles
IdLabelIndex ==
    << [id |-> m1, short_title |-> <<"M", "o", "d", "u", "l", "e", "1">>, long_title |-> Null],
       [id |-> o1, short_title |-> Null, long_title |-> <<"O", "b", "j", "1">>],
       [id |-> a1, short_title |-> <<"A", "c", "t", "1">>, long_title |-> Null] >>

CodeToIdFull ==
    << [code |-> M1, id |-> m1], [code |-> M1O1, id |-> o1], [code |-> M1O1A1, id |-> a1] >>

\* code_to_id without the module code
CodeToIdPartial == << [code |-> M1O1, id |-> o1], [code |-> M1O1A1, id |-> a1] >>

RulesWith(codes, code_to_id) ==
    [map_id_code |-> [id_to_codes |-> << [id |-> g1, codes |-> codes] >>,
                      code_to_id |-> code_to_id]]

Exercises == << [id |-> e1, label |-> <<"E", "x", "1">>, type |-> <<"m", "c", "q">>] >>

Event(day, user, playlist, objective, activity, exercise) ==
    [created_at |-> [day |-> day, tick |-> 1], user_id |-> user,
     playlist_or_module_id |-> playlist, objective_id |-> objective,
     activity_id |-> activity, exercise_id |-> exercise,
     data_correct |-> TRUE, attempt_number |-> 1]

\* the event e with another outcome and attempt number
Attempt(e, data_correct, attempt_number) ==
    [e EXCEPT !.data_correct = data_correct, !.attempt_number = attempt_number]

\* tables of 1..n rows drawn from a set of events
Tables(events, n) == UNION { [1..k -> events] : k \in 1..n }

\* most raw events of a run of the fact reconciler
MaxFactRows == 1

FactCatalogs ==
    { [modules |-> t, exercise_to_hierarchy |-> x, id_label_index |-> IdLabelIndex] :
      t \in Trees, x \in ExerciseMaps }

FactRules ==
    { RulesWith(c, CodeToIdFull) : c \in { <<M1O1A1>>, <<M1>>, <<M1x>>, <<x1>> } }
        \cup { RulesWith(<<M1>>, CodeToIdPartial) }

FactEvents ==
    { Event(1, u1, p, o, a, e) :
      p \in {Null, g1}, o \in {Null, o1}, a \in {Null, NoneText, a1}, e \in {Null, e1} }

InitDerive(catalogs, rulesets, tables) ==
    /\ pc = "raw"
    /\ learning_catalog \in catalogs
    /\ zpdes_rules \in rulesets
    /\ exercises_json = Exercises
    /\ parquet \in tables
    /\ frames = Unused /\ joined = Unused /\ fact_attempt_core = Unused
    /\ aggs = Unused
    /\ arg = Unused /\ ret = Unused
    /\ nodes_df = Unused /\ edges_df = Unused /\ warnings = Unused /\ cells = Unused

InitFact == InitDerive(FactCatalogs, FactRules, Tables(FactEvents, MaxFactRows))

\* derive.py 297-300.  The two .unique() calls on the catalog frames return
\* their rows in an order the library does not fix.
LoadLookupFrames ==
    /\ pc = "raw"
    /\ \E hs \in {hierarchy_map_from_catalog(learning_catalog)},
          as \in {activity_hierarchy(learning_catalog)} :
          \E hierarchy \in Orders(hs), ah \in Orders(as) :
              frames' = lookup_frames(learning_catalog, zpdes_rules, hierarchy, ah)
    /\ pc' = "frames"
    /\ UNCHANGED <<textVars, inputVars, joined, fact_attempt_core, aggs, graphVars, cells>>

\* derive.py 314-338: the first stages of the query of build_fact_attempt_core
JoinLookups ==
    /\ pc = "frames"
    /\ joined' = Flatten([i \in DOMAIN parquet |-> join_lookups(parquet[i], i, frames)])
    /\ pc' = "joined"
    /\ UNCHANGED <<textVars, inputVars, frames, fact_attempt_core, aggs, graphVars, cells>>

\* derive.py 339-355
JoinCodeFrames ==
    /\ pc = "joined"
    /\ joined' = [k \in DOMAIN joined |-> join_code_frames(joined[k], frames)]
    /\ pc' = "coded"
    /\ UNCHANGED <<textVars, inputVars, frames, fact_attempt_core, aggs, graphVars, cells>>

\* derive.py 356-459: the reconciling with_columns and the final select
ReconcileRows ==
    /\ pc = "coded"
    /\ fact_attempt_core' = [k \in DOMAIN joined |-> fact_row(joined[k])]
    /\ pc' = "fact"
    /\ UNCHANGED <<textVars, inputVars, frames, joined, aggs, graphVars, cells>>

\* the aggregate builders write_derived_tables runs on the fact table
BuildAggregates ==
    /\ pc = "fact"
    /\ aggs' =
        [activity_daily |-> build_agg_activity_daily_from_fact(fact_attempt_core),
         objective_daily |-> build_agg_objective_daily_from_fact(fact_attempt_core),
         student_module_progress |->
             build_agg_student_module_progress_from_fact(fact_attempt_core),
         module_usage_daily |-> build_agg_module_usage_daily_from_fact(fact_attempt_core),
         student_module_exposure |->
             build_agg_student_module_exposure_from_fact(fact_attempt_core),
         playlist_module_usage |->
             build_agg_playlist_module_usage_from_fact(fact_attempt_core),
         module_activity_usage |->
             build_agg_module_activity_usage_from_fact(fact_attempt_core),
         exercise_daily |->
             build_agg_exercise_daily_from_fact(fact_attempt_core, exercises_json)]
    /\ pc' = "aggs"
    /\ UNCHANGED <<textVars, inputVars, frames, joined, fact_attempt_core, graphVars, cells>>

NextDerive ==
    \/ LoadLookupFrames
    \/ JoinLookups
    \/ JoinCodeFrames
    \/ ReconcileRows
    \/ BuildAggregates

SpecFact == InitFact /\ [][NextDerive]_vars

\* most raw events of a run that goes on to the aggregates
MaxAggRows == 2

AggCatalogs ==
    { [modules |-> <<ModuleM1>>,
       exercise_to_hierarchy |->
           << [exercise_id |-> e1, activity_id |-> a1, objective_id |-> o1,
               module_id |-> m1] >>,
       id_label_index |-> IdLabelIndex] }

AggRules == { RulesWith(<<M1>>, CodeToIdFull), RulesWith(<<M1>>, CodeToIdPartial) }

AggEvents ==
    { Event(d, u, p, Null, a, Null) :
      d \in {1, 2}, u \in {u1, u2}, p \in {Null, p1, g1}, a \in {Null, a1} }

InitAgg == InitDerive(AggCatalogs, AggRules, Tables(AggEvents, MaxAggRows))

SpecAgg == InitAgg /\ [][NextDerive]_vars

\* most raw events of a run whose attempts differ in outcome and number
MaxDailyRows == 3

DailyEvents ==
    { Attempt(Event(1, u1, Null, Null, a, Null), c, n) :
      a \in {Null, a1}, c \in BOOLEAN, n \in {1, 2} }

InitDaily ==
    InitDerive(AggCatalogs, { RulesWith(<<M1>>, CodeToIdFull) },
               Tables(DailyEvents, MaxDailyRows))

SpecDaily == InitDaily /\ [][NextDerive]_vars

(***************************************************************************)
(* Graph specification: _build_dependency_tables_from_rules_payload on a   *)
(* module of the catalog and a bounded list of rule nodes.                 *)
(***************************************************************************)
a2 == <<"a", "2">>
zz == <<"z", "z">>
M1O1A2 == <<"M", "1", "O", "1", "A", "2">>

\* the code map of the module rule; a2 is no activity of the catalog
LocalCodeToId ==
    << [code |-> M1, id |-> m1], [code |-> M1O1, id |-> o1],
       [code |-> M1O1A1, id |-> a1], [code |-> M1O1A2, id |-> a2] >>

RuleNode(id, code, type, init_ssb, requirements, deact_requirements) ==
    [id |-> id, code |-> code, type |-> type,
     rules |-> [init_ssb |-> init_ssb, requirements |-> requirements,
                deact_requirements |-> deact_requirements]]

\* the thresholds 0.5, 0.5000001 and 0.6 of a rule, in ten-millionths
HalfThreshold == Num(5000000)
NearHalfThreshold == Num(5000001)
HigherThreshold == Num(6000000)

RequirementChoices ==
    { <<>> } \cup
    { << [target_id |-> t,
          sources |-> << [source_id |-> src, sr |-> HalfThreshold, lvl |-> NoNumber] >>] >> :
      t \in {zz, a1}, src \in {o1, a2, m1} }

DeactChoices ==
    { <<>>,
      << [target_id |-> zz,
          conditions |-> << [dim |-> a2, sr |-> NoNumber, lvl |-> NoNumber] >>] >> }

RuleNodeChoices ==
    { RuleNode(k[1], k[2], k[3], i, r, d) :
      k \in { <<o1, M1O1, Null>>, <<a1, Null, Null>>, <<a2, M1O1A2, ActivityText>>,
              <<m1, M1, Null>> },
      i \in { [kind |-> "none"], Num(0) },
      r \in RequirementChoices,
      d \in DeactChoices }

\* most rule nodes of the module rule
MaxNodeRules == 1

GraphRules ==
    { [module_rules |-> << [module_code |-> M1, map_id_code |-> LocalCodeToId,
                            node_rules |-> nr] >>,
       map_id_code |-> [id_to_codes |-> <<>>, code_to_id |-> CodeToIdFull]] :
      nr \in Tables(RuleNodeChoices, MaxNodeRules) }

InitRules(rules) ==
    /\ pc = "graph"
    /\ arg \in {M1, M2}
    /\ learning_catalog \in AggCatalogs
    /\ zpdes_rules \in rules
    /\ nodes_df = <<>> /\ edges_df = <<>> /\ warnings = <<>>
    /\ ret = Unused /\ exercises_json = Unused /\ parquet = Unused
    /\ frames = Unused /\ joined = Unused /\ fact_attempt_core = Unused
    /\ aggs = Unused /\ cells = Unused

\* zpdes_dependencies 220-336: the module rule is looked up (without one the
\* tables are empty and a warning says so), then the node map is seeded from
\* the catalog and overlaid with the rule-only nodes
SeedNodeMap ==
    /\ pc = "graph"
    /\ IF ModuleRuleHits(zpdes_rules, arg) = {}
       THEN /\ warnings' = << [kind |-> "module_not_found", module_code |-> clean_str(arg)] >>
            /\ nodes_df' = <<>>
            /\ pc' = "graph_done"
       ELSE /\ \E seeded \in {catalog_nodes(arg, learning_catalog, zpdes_rules)} :
                nodes_df' = overlay_rule_nodes(seeded, arg, learning_catalog,
                                               module_rule_of(zpdes_rules, arg),
                                               module_rule_of(zpdes_rules, arg).node_rules)
            /\ warnings' = <<>>
            /\ pc' = "seeded"
    /\ UNCHANGED <<textVars, inputVars, deriveVars, edges_df, cells>>

\* zpdes_dependencies 383-436: for every rule node, init_ssb opens its node
\* and its requirements and deact_requirements add edges
ApplyNodeRules ==
    /\ pc = "seeded"
    /\ \E by_code \in {rule_by_code(module_rule_of(zpdes_rules, arg))} :
          /\ nodes_df' =
                 [i \in DOMAIN nodes_df |->
                     IF \E j \in DOMAIN by_code :
                            /\ by_code[j].code = nodes_df[i].node_code
                            /\ is_init_open_from_rule(by_code[j].node.rules.init_ssb)
                     THEN [nodes_df[i] EXCEPT !.init_open = TRUE]
                     ELSE nodes_df[i]]
          /\ \E requested \in
                 { Flatten([j \in DOMAIN by_code |->
                               requested_edges(module_rule_of(zpdes_rules, arg),
                                               by_code[j].code, by_code[j].node)]) } :
                 edges_df' = add_edges(clean_str(arg), <<>>, requested)
    /\ pc' = "ruled"
    /\ UNCHANGED <<textVars, inputVars, deriveVars, warnings, cells>>

\* zpdes_dependencies 438-445: a node of the node map that no activation
\* edge targets is opened
DefaultOpen ==
    /\ pc = "ruled"
    /\ nodes_df' =
           [i \in DOMAIN nodes_df |->
               IF /\ ~nodes_df[i].init_open
                  /\ ~\E j \in DOMAIN edges_df :
                         /\ edges_df[j].edge_type = "activation"
                         /\ edges_df[j].to_node_code = nodes_df[i].node_code
               THEN [nodes_df[i] EXCEPT !.init_open = TRUE]
               ELSE nodes_df[i]]
    /\ pc' = "opened"
    /\ UNCHANGED <<textVars, inputVars, deriveVars, edges_df, warnings, cells>>

\* the codes of a set in Python's sorted() order
SortedCodes(S) ==
    CHOOSE f \in Orders(S) : \A i \in DOMAIN f, j \in DOMAIN f : i < j => StrLess(f[i], f[j])

\* zpdes_dependencies 447-511: the referenced codes the node map lacks get
\* a ghost node when objective- or activity-shaped; the warning counts all
\* of them
SynthesizeGhosts ==
    /\ pc = "opened"
    /\ \E missing_codes \in
           { SortedCodes({ c \in { edges_df[j].from_node_code : j \in DOMAIN edges_df }
                                  \cup { edges_df[j].to_node_code : j \in DOMAIN edges_df } :
                           ~HasKey(nodes_df, "node_code", c) }) } :
          /\ \E ghosts \in
                 { SelectSeq(missing_codes,
                             LAMBDA c : node_type_from_code_strict(c)
                                            \in {"objective", "activity"}) } :
                 nodes_df' = nodes_df \o
                     [i \in DOMAIN ghosts |->
                         Node(clean_str(arg),
                              code_to_id_global(zpdes_rules, ghosts[i]),
                              ghosts[i],
                              node_type_from_code_strict(ghosts[i]),
                              Or(id_to_label(learning_catalog,
                                             clean_str(code_to_id_global(zpdes_rules,
                                                                         ghosts[i]))),
                                 ghosts[i]),
                              parse_objective_code(
                                  ghosts[i],
                                  IF node_type_from_code_strict(ghosts[i]) = "objective"
                                  THEN ObjectiveText ELSE ActivityText),
                              "rules", TRUE)]
          /\ warnings' = IF missing_codes = <<>> THEN warnings
                         ELSE Append(warnings, [kind |-> "ghost_nodes",
                                                count |-> Len(missing_codes)])
    /\ pc' = "graph_done"
    /\ UNCHANGED <<textVars, inputVars, deriveVars, edges_df, cells>>

NextGraph == SeedNodeMap \/ ApplyNodeRules \/ DefaultOpen \/ SynthesizeGhosts

InitGraph == InitRules(GraphRules)

SpecGraph == InitGraph /\ [][NextGraph]_vars

(***************************************************************************)
(* Edge specification: the same derivation on rule nodes whose             *)
(* requirements name two targets, one of them an id the code map does not   *)
(* know, which stands for the rule node itself.                             *)
(***************************************************************************)
\* one target with one source, or the unknown target and a1 with the source
\* o1 under thresholds that are equal, equal once rounded, or different
EdgeRequirementChoices ==
    { << [target_id |-> a1,
          sources |-> << [source_id |-> src, sr |-> HalfThreshold, lvl |-> NoNumber] >>] >> :
      src \in {o1, zz} } \cup
    { << [target_id |-> zz,
          sources |-> << [source_id |-> o1, sr |-> HalfThreshold, lvl |-> NoNumber] >>],
         [target_id |-> a1,
          sources |-> << [source_id |-> o1, sr |-> sr, lvl |-> Num(1)] >>] >> :
      sr \in {HalfThreshold, NearHalfThreshold, HigherThreshold, NoNumber} }

EdgeRuleNodeChoices ==
    { RuleNode(k[1], k[2], Null, NoNumber, r, d) :
      k \in { <<o1, M1O1>>, <<a1, Null>> },
      r \in EdgeRequirementChoices,
      d \in DeactChoices }

EdgeRules ==
    { [module_rules |-> << [module_code |-> M1, map_id_code |-> LocalCodeToId,
                            node_rules |-> nr] >>,
       map_id_code |-> [id_to_codes |-> <<>>, code_to_id |-> CodeToIdFull]] :
      nr \in Tables(EdgeRuleNodeChoices, MaxNodeRules) }

InitEdges == InitRules(EdgeRules)

SpecEdges == InitEdges /\ [][NextGraph]_vars

(***************************************************************************)
(* Metadata specification: build_dependency_tables_from_metadata, which    *)
(* returns the dependency_topology snapshot of the module when the rules    *)
(* payload carries one and derives the tables otherwise.                    *)
(***************************************************************************)
\* the columns of _empty_nodes_df and of _empty_edges_df
NodeColumns ==
    {"module_code", "node_id", "node_code", "node_type", "label", "objective_code",
     "activity_index", "init_open", "source_primary", "source_enrichment", "is_ghost"}

EdgeColumns ==
    {"module_code", "edge_id", "edge_type", "from_node_code", "to_node_code",
     "threshold_type", "threshold_value", "rule_text", "source_primary",
     "source_enrichment", "enrich_lvl", "enrich_sr"}

\* zpdes_dependencies 532-540: a column of the schema the rows lack is added
\* with nulls, and the columns of the schema are selected
pad_columns(rows, columns) ==
    [i \in DOMAIN rows |->
        [c \in columns |-> IF c \in DOMAIN rows[i] THEN rows[i][c] ELSE Null]]

\* topology.get(module_code): the entries of the dict under the module code
topology_entries(rules_payload, module_code) ==
    { i \in DOMAIN rules_payload.dependency_topology :
      rules_payload.dependency_topology[i].module_code = module_code }

\* faulty variant: an entry counts only with nodes and edges
has_snapshot_with_both(rules_payload, module_code) ==
    \E i \in topology_entries(rules_payload, module_code) :
        /\ rules_payload.dependency_topology[i].nodes # <<>>
        /\ rules_payload.dependency_topology[i].edges # <<>>

\* zpdes_dependencies 522-529: the module has an entry with nodes or edges
has_snapshot(rules_payload, module_code) ==
    \E i \in topology_entries(rules_payload, module_code) :
        \/ rules_payload.dependency_topology[i].nodes # <<>>
        \/ rules_payload.dependency_topology[i].edges # <<>>

\* the nodes and the edges of a stored snapshot of M1
SnapshotNodes ==
    << [Node(M1, o1, M1O1, "objective", M1O1, M1O1, "catalog", FALSE)
            EXCEPT !.init_open = TRUE],
       Node(M1, a2, M1O1A2, "activity", M1O1A2, M1O1, "rules", TRUE) >>

SnapshotEdges ==
    add_edges(M1, <<>>,
              << [edge_type |-> "activation", from_code |-> M1O1, to_code |-> M1O1A2,
                  threshold |-> HalfThreshold, rule_text |-> "requirements",
                  enrich_lvl |-> NoNumber, enrich_sr |-> HalfThreshold] >>)

\* no topology; a snapshot of M1; a snapshot of M1 written before the
\* column is_ghost existed, without edges; an entry of M1 without nodes and
\* edges; a snapshot of M2, a module without module rule
Topologies ==
    { <<>>,
      << [module_code |-> M1, nodes |-> SnapshotNodes, edges |-> SnapshotEdges] >>,
      << [module_code |-> M1,
          nodes |-> [i \in DOMAIN SnapshotNodes |->
                        Project(SnapshotNodes[i], NodeColumns \ {"is_ghost"})],
          edges |-> <<>>] >>,
      << [module_code |-> M1, nodes |-> <<>>, edges |-> <<>>] >>,
      << [module_code |-> M2, nodes |-> <<>>, edges |-> SnapshotEdges] >> }

MetadataRules ==
    { [module_rules |-> << [module_code |-> M1, map_id_code |-> LocalCodeToId,
                            node_rules |-> <<n>>] >>,
       map_id_code |-> [id_to_codes |-> <<>>, code_to_id |-> CodeToIdFull],
       dependency_topology |-> t] :
      n \in EdgeRuleNodeChoices, t \in Topologies }

InitMetadata ==
    /\ pc = "metadata"
    /\ arg \in {M1, M2}
    /\ learning_catalog \in AggCatalogs
    /\ zpdes_rules \in MetadataRules
    /\ nodes_df = <<>> /\ edges_df = <<>> /\ warnings = <<>>
    /\ ret = Unused /\ exercises_json = Unused /\ parquet = Unused
    /\ frames = Unused /\ joined = Unused /\ fact_attempt_core = Unused
    /\ aggs = Unused /\ cells = Unused

\* zpdes_dependencies 519-548: the snapshot is returned, or the derivation
\* is called
LoadTopology ==
    /\ pc = "metadata"
    /\ IF has_snapshot(zpdes_rules, arg)
       THEN \E i \in topology_entries(zpdes_rules, arg) :
               /\ nodes_df' = pad_columns(zpdes_rules.dependency_topology[i].nodes,
                                          NodeColumns)
               /\ edges_df' = pad_columns(zpdes_rules.dependency_topology[i].edges,
                                          EdgeColumns)
               /\ warnings' = <<>>
               /\ pc' = "graph_done"
       ELSE /\ pc' = "graph"
            /\ UNCHANGED graphVars
    /\ UNCHANGED <<textVars, inputVars, deriveVars, cells>>

NextMetadata == LoadTopology \/ NextGraph

SpecMetadata == InitMetadata /\ [][NextMetadata]_vars

(***************************************************************************)
(* Lane filter: zpdes_dependencies.filter_dependency_graph_by_objectives   *)
(* applied to a node table and an edge table, and applied again to its own  *)
(* result with the same selection.                                          *)
(***************************************************************************)
\* faulty variant: an edge is kept when one of its endpoints is kept
filter_dependency_graph_by_any_endpoint(nodes, edges, objective_codes) ==
    LET selected == { strip_chars(objective_codes[i]) : i \in DOMAIN objective_codes }
                        \ { <<>> }
        filtered_nodes ==
            Select(nodes, { n \in Range(nodes) :
                            n.objective_code # Null /\ n.objective_code \in selected })
        valid_node_codes == { filtered_nodes[i].node_code : i \in DOMAIN filtered_nodes }
    IN  IF selected = {} THEN [nodes |-> <<>>, edges |-> <<>>]
        ELSE [nodes |-> filtered_nodes,
              edges |-> Select(edges, { e \in Range(edges) :
                                        \/ e.from_node_code \in valid_node_codes
                                        \/ e.to_node_code \in valid_node_codes })]

\* zpdes_dependencies.filter_dependency_graph_by_objectives: is_in never
\* matches a null objective_code
filter_dependency_graph_by_objectives(nodes, edges, objective_codes) ==
    LET selected == { strip_chars(objective_codes[i]) : i \in DOMAIN objective_codes }
                        \ { <<>> }
        filtered_nodes ==
            Select(nodes, { n \in Range(nodes) :
                            n.objective_code # Null /\ n.objective_code \in selected })
        valid_node_codes == { filtered_nodes[i].node_code : i \in DOMAIN filtered_nodes }
    IN  IF selected = {} THEN [nodes |-> <<>>, edges |-> <<>>]
        ELSE [nodes |-> filtered_nodes,
              edges |-> Select(edges, { e \in Range(edges) :
                                        /\ e.from_node_code \in valid_node_codes
                                        /\ e.to_node_code \in valid_node_codes })]

\* most edges of a filtered graph
MaxFilterEdges == 2

M1O2 == <<"M", "1", "O", "2">>
M1O2A1 == <<"M", "1", "O", "2", "A", "1">>
M1O3 == <<"M", "1", "O", "3">>

\* the nodes of two objective lanes
FilterLaneNodes ==
    << Node(M1, o1, M1O1, "objective", M1O1, M1O1, "catalog", FALSE),
       Node(M1, a1, M1O1A1, "activity", M1O1A1, M1O1, "catalog", FALSE),
       Node(M1, o2, M1O2, "objective", M1O2, M1O2, "rules", FALSE),
       Node(M1, a2, M1O2A1, "activity", M1O2A1, M1O2, "rules", TRUE) >>

\* some of the lane nodes, followed by a node without lane
FilterNodeTables ==
    { Select(FilterLaneNodes, S)
          \o << Node(M1, m1, M1, "module", M1, Null, "rules", FALSE) >> :
      S \in SUBSET Range(FilterLaneNodes) }

\* edges inside a lane, across lanes, from the node without lane and from
\* codes that may have no node
FilterEdgeRequests ==
    { [edge_type |-> "activation", from_code |-> f, to_code |-> t,
       threshold |-> HalfThreshold, rule_text |-> "requirements",
       enrich_lvl |-> NoNumber, enrich_sr |-> HalfThreshold] :
      f \in {M1O1, M1O1A1, M1O2A1, M1}, t \in {M1O1A1, M1O2, M1O2A1} }

FilterEdgeTables ==
    { add_edges(M1, <<>>, requested) :
      requested \in { <<>> } \cup Tables(FilterEdgeRequests, MaxFilterEdges) }

\* selections: empty, blank, one lane, one lane with surrounding spaces, both
\* lanes, a lane without nodes
FilterSelections ==
    { <<>>, << <<>> >>, <<M1O1>>, << <<" ">> \o M1O2 \o <<" ">> >>, <<M1O1, M1O2>>, <<M1O3>> }

InitFilter ==
    /\ pc = "filter"
    /\ arg \in FilterSelections
    /\ nodes_df \in FilterNodeTables
    /\ edges_df \in FilterEdgeTables
    /\ warnings = <<>>
    /\ ret = Unused /\ cells = Unused
    /\ learning_catalog = Unused /\ zpdes_rules = Unused
    /\ exercises_json = Unused /\ parquet = Unused
    /\ frames = Unused /\ joined = Unused /\ fact_attempt_core = Unused /\ aggs = Unused

\* the first call
FilterGraph ==
    /\ pc = "filter"
    /\ ret' = [first |-> filter_dependency_graph_by_objectives(nodes_df, edges_df, arg)]
    /\ pc' = "filtered"
    /\ UNCHANGED <<arg, cells, inputVars, deriveVars, graphVars>>

\* a second call, on the result of the first
FilterAgain ==
    /\ pc = "filtered"
    /\ ret' = [first |-> ret.first,
               second |-> filter_dependency_graph_by_objectives(ret.first.nodes,
                                                                ret.first.edges, arg)]
    /\ pc' = "refiltered"
    /\ UNCHANGED <<arg, cells, inputVars, deriveVars, graphVars>>

NextFilter == FilterGraph \/ FilterAgain

SpecFilter == InitFilter /\ [][NextFilter]_vars

(***************************************************************************)
(* Matrix Builder: objective_activity_matrix.build_objective_activity_cells *)
(* for the metrics attempts, success_rate and repeat_attempt_rate.  A rate  *)
(* is a whole number of RateDen-ths, a metric value is the exact fraction  *)
(* [num, den]; the display text of a cell (metric_text) is not modelled.    *)
(***************************************************************************)
RateDen == 2

\* objective_activity_matrix._safe_label
safe_label(label, identifier) ==
    IF strip_chars(Or(label, <<>>)) # <<>>
    THEN strip_chars(Or(label, <<>>))
    ELSE strip_chars(Or(identifier, <<>>))

\* dict.get(key) on a dict kept as a sequence of items; Null when absent
DictGet(dict, key, valcol) ==
    IF \E i \in DOMAIN dict : dict[i].id = key
    THEN dict[CHOOSE i \in DOMAIN dict : dict[i].id = key][valcol]
    ELSE Null

\* the first module of the payload whose stripped code is the module code
summary_module_rows(summary_payload, module_code) ==
    { i \in DOMAIN summary_payload.modules :
      strip_chars(Or(summary_payload.modules[i].code, <<>>)) = module_code }

\* the (id, idx, label) items one enumerate() loop of _summary_maps puts
\* into its maps: rows with a blank id are skipped
RECURSIVE summary_items(_, _)
summary_items(entries, i) ==
    IF i > Len(entries) THEN <<>>
    ELSE IF strip_chars(Or(entries[i].id, <<>>)) = <<>> THEN summary_items(entries, i + 1)
    ELSE << [id |-> strip_chars(entries[i].id), idx |-> i - 1,
             label |-> safe_label(Or(entries[i].title.short, entries[i].title.long),
                                  strip_chars(entries[i].id))] >>
         \o summary_items(entries, i + 1)

\* objective_activity_order_map[objective_id] = activity_order_map, one item
\* per listed objective with a non-blank id
RECURSIVE summary_activity_orders(_, _)
summary_activity_orders(objectives, i) ==
    IF i > Len(objectives) THEN <<>>
    ELSE IF strip_chars(Or(objectives[i].id, <<>>)) = <<>>
         THEN summary_activity_orders(objectives, i + 1)
         ELSE << [id |-> strip_chars(objectives[i].id),
                  order |-> DictPutAll(<<>>, "id",
                                       summary_items(objectives[i].activities, 1))] >>
              \o summary_activity_orders(objectives, i + 1)

\* objective_activity_matrix._summary_maps on a payload in the nested
\* learning_catalog format
summary_maps(summary_payload, module_code) ==
    IF summary_module_rows(summary_payload, module_code) = {}
    THEN [objective_order_map |-> <<>>, objective_activity_order_map |-> <<>>,
          activity_label_map |-> <<>>]
    ELSE LET module_row ==
                 summary_payload.modules[
                     FirstIdx(summary_module_rows(summary_payload, module_code))]
             orders == DictPutAll(<<>>, "id",
                                  summary_activity_orders(module_row.objectives, 1))
         IN  [objective_order_map |->
                  DictPutAll(<<>>, "id", summary_items(module_row.objectives, 1)),
              objective_activity_order_map |-> orders,
              activity_label_map |->
                  DictPutAll(<<>>, "id",
                             Flatten([i \in DOMAIN module_row.objectives |->
                                         summary_items(module_row.objectives[i].activities,
                                                       1)]))]

\* the filter of build_objective_activity_cells
in_window(row, query) ==
    /\ row.module_code = query.module_code
    /\ row.date_utc >= query.start_date
    /\ row.date_utc <= query.end_date

\* pl.col(col).drop_nulls().first() over the rows of a group
RECURSIVE first_non_null(_, _)
first_non_null(rows, col) ==
    IF rows = <<>> THEN Null
    ELSE IF Head(rows)[col] # Null THEN Head(rows)[col]
    ELSE first_non_null(Tail(rows), col)

RECURSIVE attempts_sum(_)
attempts_sum(rows) ==
    IF rows = <<>> THEN 0 ELSE Head(rows).attempts + attempts_sum(Tail(rows))

\* (pl.col(col) * pl.col("attempts")).sum(), in RateDen-ths, dropping the
\* weights
RECURSIVE weighted_sum_unweighted(_, _)
weighted_sum_unweighted(rows, col) ==
    IF rows = <<>> THEN 0
    ELSE (IF Head(rows)[col].kind = "num" THEN Head(rows)[col].v ELSE 0)
         + weighted_sum_unweighted(Tail(rows), col)

\* (pl.col(col) * pl.col("attempts")).sum(), in RateDen-ths: a null product
\* is skipped by sum()
RECURSIVE weighted_sum(_, _)
weighted_sum(rows, col) ==
    IF rows = <<>> THEN 0
    ELSE (IF Head(rows)[col].kind = "num" THEN Head(rows)[col].v * Head(rows).attempts
          ELSE 0)
         + weighted_sum(Tail(rows), col)

\* the rows of a frame that satisfy a key, in frame order
RECURSIVE rows_of_group(_, _)
rows_of_group(frame, key) ==
    IF frame = <<>> THEN <<>>
    ELSE (IF Project(Head(frame), DOMAIN key) = key THEN <<Head(frame)>> ELSE <<>>)
         \o rows_of_group(Tail(frame), key)

\* one row of group_by([module_code, objective_id, activity_id]).agg(...)
aggregated_row(normalized, key) ==
    [module_code |-> key.module_code,
     objective_id |-> key.objective_id,
     activity_id |-> key.activity_id,
     objective_label |-> first_non_null(rows_of_group(normalized, key), "objective_label"),
     activity_label |-> first_non_null(rows_of_group(normalized, key), "activity_label"),
     attempts_sum |-> attempts_sum(rows_of_group(normalized, key)),
     weighted_success_sum |-> weighted_sum(rows_of_group(normalized, key), "success_rate"),
     weighted_repeat_sum |->
         weighted_sum(rows_of_group(normalized, key), "repeat_attempt_rate")]

Fraction(num, den) == [num |-> num, den |-> den]

\* the sum of a sequence of fractions
RECURSIVE FractionSum(_)
FractionSum(fs) ==
    IF fs = <<>> THEN Fraction(0, 1)
    ELSE Fraction(Head(fs).num * FractionSum(Tail(fs)).den
                      + FractionSum(Tail(fs)).num * Head(fs).den,
                  Head(fs).den * FractionSum(Tail(fs)).den)

\* one row of the first group_by of the exercise-balanced branch, per
\* (module_code, objective_id, activity_id, exercise_id): the
\* attempts-weighted rate of the exercise, null without attempts
exercise_row(exercise_filtered, key) ==
    [module_code |-> key.module_code,
     objective_id |-> key.objective_id,
     activity_id |-> key.activity_id,
     exercise_id |-> key.exercise_id,
     objective_label |->
         first_non_null(rows_of_group(exercise_filtered, key), "objective_label"),
     activity_label |->
         first_non_null(rows_of_group(exercise_filtered, key), "activity_label"),
     exercise_attempts_sum |-> attempts_sum(rows_of_group(exercise_filtered, key)),
     exercise_weighted_success_sum |->
         weighted_sum(rows_of_group(exercise_filtered, key), "success_rate"),
     exercise_success_rate |->
         IF attempts_sum(rows_of_group(exercise_filtered, key)) > 0
         THEN Fraction(weighted_sum(rows_of_group(exercise_filtered, key), "success_rate"),
                       RateDen * attempts_sum(rows_of_group(exercise_filtered, key)))
         ELSE NoNumber]

\* pl.col("exercise_success_rate").drop_nulls().mean(): null over no value
balanced_mean(rates) ==
    IF rates = <<>> THEN NoNumber
    ELSE Fraction(FractionSum(rates).num, FractionSum(rates).den * Len(rates))

RECURSIVE ColumnSum(_, _)
ColumnSum(rows, col) ==
    IF rows = <<>> THEN 0 ELSE Head(rows)[col] + ColumnSum(Tail(rows), col)

\* faulty variant: the exercises are pooled, each weighing as many attempts
\* as it has
balanced_rate_pooled(rows) ==
    IF ColumnSum(rows, "exercise_attempts_sum") = 0 THEN NoNumber
    ELSE Fraction(ColumnSum(rows, "exercise_weighted_success_sum"),
                  RateDen * ColumnSum(rows, "exercise_attempts_sum"))

\* the mean of the non-null exercise rates of the exercise rows of a group
balanced_rate(rows) ==
    balanced_mean(Select([i \in DOMAIN rows |-> rows[i].exercise_success_rate],
                         { rows[i].exercise_success_rate : i \in DOMAIN rows } \ {NoNumber}))

\* one row of the second group_by, per (module_code, objective_id,
\* activity_id), over the exercise rows in the order the first one gave
balanced_row(exercise_rows, key) ==
    [module_code |-> key.module_code,
     objective_id |-> key.objective_id,
     activity_id |-> key.activity_id,
     objective_label |-> first_non_null(rows_of_group(exercise_rows, key), "objective_label"),
     activity_label |-> first_non_null(rows_of_group(exercise_rows, key), "activity_label"),
     exercise_balanced_success_rate |-> balanced_rate(rows_of_group(exercise_rows, key))]

\* the metric branch of the per_objective loop
metric_value_of(row, metric) ==
    IF metric = "exercise_balanced_success_rate" THEN row.exercise_balanced_success_rate
    ELSE IF metric = "attempts" THEN Fraction(row.attempts_sum, 1)
    ELSE IF row.attempts_sum <= 0 THEN Fraction(0, 1)
    ELSE IF metric = "success_rate"
         THEN Fraction(row.weighted_success_sum, RateDen * row.attempts_sum)
         ELSE Fraction(row.weighted_repeat_sum, RateDen * row.attempts_sum)

\* the per_objective loop over the aggregated rows: a dict of objectives in
\* first-seen order, each with its activities in row order
RECURSIVE per_objective_of(_, _, _, _)
per_objective_of(aggregated, metric, maps, acc) ==
    IF aggregated = <<>> THEN acc
    ELSE LET row == Head(aggregated)
             objective_id == strip_chars(Or(row.objective_id, <<>>))
             activity_id == strip_chars(Or(row.activity_id, <<>>))
             entry == [activity_id |-> activity_id,
                       activity_label |->
                           safe_label(Or(row.activity_label,
                                         DictGet(maps.activity_label_map, activity_id,
                                                 "label")),
                                      activity_id),
                       metric_value |-> metric_value_of(row, metric)]
             objective_label ==
                 safe_label(Or(row.objective_label,
                               DictGet(maps.objective_order_map, objective_id, "label")),
                            objective_id)
         IN  IF \/ objective_id = <<>>
                \/ activity_id = <<>>
                \/ /\ metric = "exercise_balanced_success_rate"
                   /\ row.exercise_balanced_success_rate = NoNumber
             THEN per_objective_of(Tail(aggregated), metric, maps, acc)
             ELSE IF HasKey(acc, "id", objective_id)
             THEN per_objective_of(
                      Tail(aggregated), metric, maps,
                      [i \in DOMAIN acc |->
                          IF acc[i].id = objective_id
                          THEN [acc[i] EXCEPT !.activities = Append(@, entry)]
                          ELSE acc[i]])
             ELSE per_objective_of(
                      Tail(aggregated), metric, maps,
                      Append(acc, [id |-> objective_id,
                                   objective_label |-> objective_label,
                                   activities |-> <<entry>>]))

\* Python's tuple comparison of the sort keys (number, text, text)
KeyLess(a, b) ==
    \/ a[1] < b[1]
    \/ a[1] = b[1] /\ StrLess(a[2], b[2])
    \/ a[1] = b[1] /\ a[2] = b[2] /\ StrLess(a[3], b[3])

RECURSIVE InsertSorted(_, _)
InsertSorted(items, x) ==
    IF items = <<>> THEN <<x>>
    ELSE IF KeyLess(x.key, Head(items).key) THEN <<x>> \o items
    ELSE <<Head(items)>> \o InsertSorted(Tail(items), x)

\* sorted(items, key=...): stable
RECURSIVE sorted(_)
sorted(items) ==
    IF items = <<>> THEN <<>>
    ELSE InsertSorted(sorted(SubSeq(items, 1, Len(items) - 1)), items[Len(items)])

\* ordered_summary_objectives + fallback_objectives
ordered_objectives(per_objective, maps) ==
    LET by_order ==
            sorted([i \in DOMAIN maps.objective_order_map |->
                       [key |-> <<maps.objective_order_map[i].idx, <<>>, <<>>>>,
                        id |-> maps.objective_order_map[i].id]])
        observed ==
            [i \in DOMAIN per_objective |->
                [key |-> <<0, to_lowercase(per_objective[i].objective_label),
                           per_objective[i].id>>,
                 id |-> per_objective[i].id]]
        in_summary ==
            Select(by_order, { x \in Range(by_order) : HasKey(per_objective, "id", x.id) })
        fallback ==
            sorted(Select(observed,
                          { x \in Range(observed) :
                            ~HasKey(maps.objective_order_map, "id", x.id) }))
    IN  [i \in DOMAIN in_summary |-> in_summary[i].id]
        \o [i \in DOMAIN fallback |-> fallback[i].id]

\* faulty variant: the unlisted activities are sorted by id alone
ordered_activities_by_id(activity_rows, activity_order_map) ==
    LET listed == { x \in Range(activity_rows) :
                    HasKey(activity_order_map, "id", x.activity_id) }
        unlisted == Range(activity_rows) \ listed
        in_summary ==
            sorted([i \in DOMAIN Select(activity_rows, listed) |->
                       [key |-> <<DictGet(activity_order_map,
                                          Select(activity_rows, listed)[i].activity_id,
                                          "idx"), <<>>, <<>>>>,
                        row |-> Select(activity_rows, listed)[i]]])
        fallback ==
            sorted([i \in DOMAIN Select(activity_rows, unlisted) |->
                       [key |-> <<0, <<>>, Select(activity_rows, unlisted)[i].activity_id>>,
                        row |-> Select(activity_rows, unlisted)[i]]])
    IN  [i \in DOMAIN in_summary |-> in_summary[i].row]
        \o [i \in DOMAIN fallback |-> fallback[i].row]

\* in_summary_activities + fallback_activities of one objective
ordered_activities(activity_rows, activity_order_map) ==
    LET listed == { x \in Range(activity_rows) :
                    HasKey(activity_order_map, "id", x.activity_id) }
        unlisted == Range(activity_rows) \ listed
        in_summary ==
            sorted([i \in DOMAIN Select(activity_rows, listed) |->
                       [key |-> <<DictGet(activity_order_map,
                                          Select(activity_rows, listed)[i].activity_id,
                                          "idx"), <<>>, <<>>>>,
                        row |-> Select(activity_rows, listed)[i]]])
        fallback ==
            sorted([i \in DOMAIN Select(activity_rows, unlisted) |->
                       [key |-> <<0,
                                  to_lowercase(Select(activity_rows, unlisted)[i].activity_label),
                                  Select(activity_rows, unlisted)[i].activity_id>>,
                        row |-> Select(activity_rows, unlisted)[i]]])
    IN  [i \in DOMAIN in_summary |-> in_summary[i].row]
        \o [i \in DOMAIN fallback |-> fallback[i].row]

\* objective_row_label_map: a base label shared by several objectives gets
\* the first eight characters of the id appended
objective_row_label(per_objective, objective_id) ==
    LET base(i) == safe_label(per_objective[i].objective_label, per_objective[i].id)
        me == CHOOSE i \in DOMAIN per_objective : per_objective[i].id = objective_id
    IN  IF Cardinality({ i \in DOMAIN per_objective : base(i) = base(me) }) <= 1
        THEN base(me)
        ELSE base(me) \o <<" ", "(">>
             \o SubSeq(objective_id, 1, IF Len(objective_id) < 8 THEN Len(objective_id) ELSE 8)
             \o <<")">>

\* the records of one objective, columns numbered from 1
objective_records(per_objective, maps, module_code, objective_id) ==
    LET me == per_objective[CHOOSE i \in DOMAIN per_objective :
                                per_objective[i].id = objective_id]
        order == IF HasKey(maps.objective_activity_order_map, "id", objective_id)
                 THEN DictGet(maps.objective_activity_order_map, objective_id, "order")
                 ELSE <<>>
        acts == ordered_activities(me.activities, order)
    IN  [idx \in DOMAIN acts |->
            [module_code |-> module_code,
             objective_id |-> objective_id,
             objective_label |-> safe_label(me.objective_label, objective_id),
             objective_row_label |-> objective_row_label(per_objective, objective_id),
             activity_id |-> acts[idx].activity_id,
             activity_label |-> safe_label(acts[idx].activity_label, acts[idx].activity_id),
             activity_col_idx |-> idx,
             metric_value |-> acts[idx].metric_value]]

\* build_ragged_matrix_payload, first loop: the objectives of the rows in
\* first-seen order, each with the row label of its first row
RECURSIVE objective_position(_, _)
objective_position(rows, acc) ==
    IF rows = <<>> THEN acc
    ELSE objective_position(
             Tail(rows),
             IF HasKey(acc, "id", Head(rows).objective_id) THEN acc
             ELSE Append(acc, [id |-> Head(rows).objective_id,
                               label |-> Head(rows).objective_row_label]))

\* build_ragged_matrix_payload, first loop: the largest activity_col_idx
RECURSIVE max_activity_cols(_)
max_activity_cols(rows) ==
    IF rows = <<>> THEN 0
    ELSE IF Head(rows).activity_col_idx > max_activity_cols(Tail(rows))
         THEN Head(rows).activity_col_idx
         ELSE max_activity_cols(Tail(rows))

\* faulty variant: an entry no row assigns is 0
RECURSIVE z_entry_zero_filled(_, _, _)
z_entry_zero_filled(rows, objective_id, col) ==
    IF rows = <<>> THEN Fraction(0, 1)
    ELSE IF /\ rows[Len(rows)].objective_id = objective_id
            /\ rows[Len(rows)].activity_col_idx = col
         THEN rows[Len(rows)].metric_value
         ELSE z_entry_zero_filled(SubSeq(rows, 1, Len(rows) - 1), objective_id, col)

\* build_ragged_matrix_payload, second loop: the entry of z_values for an
\* objective and a column is None until a row assigns its metric_value,
\* and the last such row wins
RECURSIVE z_entry(_, _, _)
z_entry(rows, objective_id, col) ==
    IF rows = <<>> THEN NoNumber
    ELSE IF /\ rows[Len(rows)].objective_id = objective_id
            /\ rows[Len(rows)].activity_col_idx = col
         THEN rows[Len(rows)].metric_value
         ELSE z_entry(SubSeq(rows, 1, Len(rows) - 1), objective_id, col)

\* objective_activity_matrix.build_ragged_matrix_payload, without the texts
\* (x_labels, text_values, customdata)
build_ragged_matrix_payload(rows) ==
    IF rows = <<>>
    THEN [objective_ids |-> <<>>, y_labels |-> <<>>, z_values |-> <<>>,
          max_activity_cols |-> 0]
    ELSE [objective_ids |->
              [r \in DOMAIN objective_position(rows, <<>>) |->
                  objective_position(rows, <<>>)[r].id],
          y_labels |->
              [r \in DOMAIN objective_position(rows, <<>>) |->
                  objective_position(rows, <<>>)[r].label],
          z_values |->
              [r \in DOMAIN objective_position(rows, <<>>) |->
                  [c \in 1..max_activity_cols(rows) |->
                      z_entry(rows, objective_position(rows, <<>>)[r].id, c)]],
          max_activity_cols |-> max_activity_cols(rows)]

(***************************************************************************)
(* Matrix specification: one call of build_objective_activity_cells on an  *)
(* activity-daily table of at most MaxMatrixRows rows, sorted as            *)
(* write_derived_tables sorts it (date ascending, attempts descending) and  *)
(* with one row per day and activity.                                       *)
(***************************************************************************)
MaxMatrixRows == 2

DailyRow(date_utc, module_code, activity_id, label, attempts, success_rate, repeat_rate) ==
    [date_utc |-> date_utc, module_code |-> module_code, objective_id |-> o1,
     objective_label |-> <<"O", "b", "j", "1">>, activity_id |-> activity_id,
     activity_label |-> label, attempts |-> attempts,
     success_rate |-> success_rate, repeat_attempt_rate |-> repeat_rate]

\* the label the activity-daily table carries for an activity: a2 has none
DailyLabel(activity_id) == IF activity_id = a1 THEN <<"A", "c", "t", "1">> ELSE Null

\* rows inside the window of the query, a row of a later day, a row of
\* another module and a row without activity
DailyRows ==
    { DailyRow(d, M1, a, DailyLabel(a), n, Num(r), Num(RateDen - r)) :
      d \in {1, 2}, a \in {a1, a2}, n \in {0, 1, 2}, r \in {0, RateDen} }
    \cup { DailyRow(d, M1, a, DailyLabel(a), 1, NoNumber, Num(1)) :
           d \in {1, 2}, a \in {a1, a2} }
    \cup { DailyRow(3, M1, a1, DailyLabel(a1), 2, Num(RateDen), Num(0)),
           DailyRow(1, M2, a1, DailyLabel(a1), 2, Num(RateDen), Num(0)),
           DailyRow(1, M1, Null, Null, 2, Num(RateDen), Num(0)) }

DailyTables ==
    { t \in Tables(DailyRows, MaxMatrixRows) :
      \A i \in DOMAIN t, j \in DOMAIN t :
          i < j =>
              /\ Project(t[i], {"date_utc", "module_code", "activity_id"})
                     # Project(t[j], {"date_utc", "module_code", "activity_id"})
              /\ \/ t[i].date_utc < t[j].date_utc
                 \/ t[i].date_utc = t[j].date_utc /\ t[i].attempts >= t[j].attempts }

MatrixQueries ==
    { [module_code |-> M1, start_date |-> 1, end_date |-> 2, metric |-> m] :
      m \in {"attempts", "success_rate", "repeat_attempt_rate"} }

InitCells(queries, catalogs, daily_tables, exercise_tables) ==
    /\ pc = "matrix"
    /\ arg \in queries
    /\ learning_catalog \in catalogs
    /\ aggs \in { [activity_daily |-> t, exercise_daily |-> x] :
                   t \in daily_tables, x \in exercise_tables }
    /\ ret = Unused
    /\ cells = Unused
    /\ zpdes_rules = Unused /\ exercises_json = Unused /\ parquet = Unused
    /\ frames = Unused /\ joined = Unused /\ fact_attempt_core = Unused
    /\ nodes_df = Unused /\ edges_df = Unused /\ warnings = Unused

InitMatrix == InitCells(MatrixQueries, AggCatalogs, DailyTables, { <<>> })

\* objective_activity_matrix 283-357: the exercise-balanced aggregation of
\* the exercise-daily rows of the window, two group_by in a row
balanced_aggregations(exercise_filtered) ==
    UNION { Orders({ balanced_row(exercise_rows, k) :
                     k \in { Project(exercise_rows[i],
                                     {"module_code", "objective_id", "activity_id"}) :
                             i \in DOMAIN exercise_rows } }) :
            exercise_rows \in
                Orders({ exercise_row(exercise_filtered, k) :
                         k \in { Project(exercise_filtered[i],
                                         {"module_code", "objective_id", "activity_id",
                                          "exercise_id"}) :
                                 i \in DOMAIN exercise_filtered } }) }

\* objective_activity_matrix 427-446: the default aggregation
default_aggregations(normalized) ==
    Orders({ aggregated_row(normalized, k) :
             k \in { Project(normalized[i], {"module_code", "objective_id", "activity_id"}) :
                     i \in DOMAIN normalized } })

\* objective_activity_matrix 262-446: the window filter and the
\* aggregation of the metric; group_by returns the groups in any order
AggregateMatrixRows ==
    /\ pc = "matrix"
    /\ \E normalized \in { Select(aggs.activity_daily,
                                  { r \in Range(aggs.activity_daily) : in_window(r, arg) }) } :
          IF normalized = <<>>
          THEN /\ cells' = <<>>
               /\ ret' = ret
               /\ pc' = "cells_done"
          ELSE IF arg.metric = "exercise_balanced_success_rate"
          THEN \E exercise_filtered \in
                   { Select(aggs.exercise_daily,
                            { r \in Range(aggs.exercise_daily) : in_window(r, arg) }) } :
                   IF exercise_filtered = <<>>
                   THEN /\ cells' = <<>>
                        /\ ret' = ret
                        /\ pc' = "cells_done"
                   ELSE /\ \E aggregated \in balanced_aggregations(exercise_filtered) :
                               ret' = [aggregated |-> aggregated]
                        /\ cells' = cells
                        /\ pc' = "aggregated"
          ELSE /\ \E aggregated \in default_aggregations(normalized) :
                      ret' = [aggregated |-> aggregated]
               /\ cells' = cells
               /\ pc' = "aggregated"
    /\ UNCHANGED <<arg, inputVars, deriveVars, graphVars>>

\* objective_activity_matrix 447-515: the summary maps and the per_objective
\* loop
CollectPerObjective ==
    /\ pc = "aggregated"
    /\ \E maps \in { summary_maps(learning_catalog, arg.module_code) } :
       \E per_objective \in { per_objective_of(ret.aggregated, arg.metric, maps, <<>>) } :
          IF per_objective = <<>>
          THEN /\ cells' = <<>>
               /\ ret' = ret
               /\ pc' = "cells_done"
          ELSE /\ ret' = [per_objective |-> per_objective, maps |-> maps]
               /\ cells' = cells
               /\ pc' = "collected"
    /\ UNCHANGED <<arg, inputVars, deriveVars, graphVars>>

\* objective_activity_matrix 517-594: ordering, row labels and the records
OrderCells ==
    /\ pc = "collected"
    /\ \E order \in { ordered_objectives(ret.per_objective, ret.maps) } :
          cells' = Flatten([i \in DOMAIN order |->
                               objective_records(ret.per_objective, ret.maps,
                                                 arg.module_code, order[i])])
    /\ pc' = "cells_done"
    /\ UNCHANGED <<arg, ret, inputVars, deriveVars, graphVars>>

\* objective_activity_matrix 597-677: the dense payload of the cell table
BuildPayload ==
    /\ pc = "cells_done"
    /\ ret' = build_ragged_matrix_payload(cells)
    /\ pc' = "payload_done"
    /\ UNCHANGED <<arg, cells, inputVars, deriveVars, graphVars>>

NextMatrix == AggregateMatrixRows \/ CollectPerObjective \/ OrderCells \/ BuildPayload

SpecMatrix == InitMatrix /\ [][NextMatrix]_vars

(***************************************************************************)
(* Exercise-balanced specification: build_objective_activity_cells with    *)
(* the metric exercise_balanced_success_rate on an exercise-daily table of  *)
(* at most MaxExerciseRows rows, one row per day and exercise, sorted as    *)
(* write_derived_tables sorts it.                                           *)
(***************************************************************************)
MaxExerciseRows == 3

e2 == <<"e", "2">>

ExerciseRow(date_utc, activity_id, exercise_id, attempts, success_rate) ==
    [date_utc |-> date_utc, module_code |-> M1, objective_id |-> o1,
     objective_label |-> <<"O", "b", "j", "1">>, activity_id |-> activity_id,
     activity_label |-> DailyLabel(activity_id), exercise_id |-> exercise_id,
     attempts |-> attempts, success_rate |-> success_rate]

\* rows of two exercises of a1 inside the window, a row of a later day and a
\* row of another activity
ExerciseRows ==
    { ExerciseRow(d, a1, e, v[1], Num(v[2])) :
      d \in {1, 2}, e \in {e1, e2},
      v \in { <<2, RateDen>>, <<1, 0>>, <<1, RateDen>>, <<0, RateDen>> } }
    \cup { ExerciseRow(3, a1, e1, 2, Num(RateDen)), ExerciseRow(1, a2, e1, 1, Num(RateDen)) }

ExerciseTables ==
    { t \in Tables(ExerciseRows, MaxExerciseRows) :
      \A i \in DOMAIN t, j \in DOMAIN t :
          i < j =>
              /\ Project(t[i], {"date_utc", "activity_id", "exercise_id"})
                     # Project(t[j], {"date_utc", "activity_id", "exercise_id"})
              /\ \/ t[i].date_utc < t[j].date_utc
                 \/ t[i].date_utc = t[j].date_utc /\ t[i].attempts >= t[j].attempts }

\* the activity-daily table of the call: empty, or with a row in the window
BalancedDailyTables ==
    { <<>>, << DailyRow(1, M1, a1, DailyLabel(a1), 1, Num(RateDen), Num(0)) >> }

BalancedQueries ==
    { [module_code |-> M1, start_date |-> 1, end_date |-> 2,
       metric |-> "exercise_balanced_success_rate"] }

InitBalanced == InitCells(BalancedQueries, AggCatalogs, BalancedDailyTables, ExerciseTables)

SpecBalanced == InitBalanced /\ [][NextMatrix]_vars

(***************************************************************************)
(* Overlay specification: zpdes_dependencies.attach_overlay_metrics_to_nodes *)
(* on a node table and an activity-daily table whose rows all count at      *)
(* least one attempt, as the rows write_derived_tables produces do.         *)
(***************************************************************************)
NullOverlay == [attempts |-> NoNumber, success_rate |-> NoNumber, repeat_attempt_rate |-> NoNumber]

\* faulty variant: the rates are the plain mean of the daily rates
overlay_metrics_naive_mean(filtered, col, node_id) ==
    LET rows == Select(filtered, { r \in Range(filtered) : r[col] = node_id })
    IN  IF node_id = Null \/ rows = <<>> THEN NullOverlay
        ELSE [attempts |-> Num(attempts_sum(rows)),
              success_rate |->
                  Fraction(weighted_sum_unweighted(rows, "success_rate"),
                           RateDen * Len(rows)),
              repeat_attempt_rate |->
                  Fraction(weighted_sum_unweighted(rows, "repeat_attempt_rate"),
                           RateDen * Len(rows))]

\* zpdes_dependencies 609-639: the metrics of the group of a node id in
\* group_by(col), left-joined on node_id; a null key joins nothing
overlay_metrics(filtered, col, node_id) ==
    LET rows == Select(filtered, { r \in Range(filtered) : r[col] = node_id })
    IN  IF node_id = Null \/ rows = <<>> THEN NullOverlay
        ELSE [attempts |-> Num(attempts_sum(rows)),
              success_rate |->
                  Fraction(weighted_sum(rows, "success_rate"),
                           RateDen * attempts_sum(rows)),
              repeat_attempt_rate |->
                  Fraction(weighted_sum(rows, "repeat_attempt_rate"),
                           RateDen * attempts_sum(rows))]

\* zpdes_dependencies 640-659: the metric set is picked by node_type
overlay_of(filtered, node) ==
    IF node.node_type = "activity" THEN overlay_metrics(filtered, "activity_id", node.node_id)
    ELSE IF node.node_type = "objective"
         THEN overlay_metrics(filtered, "objective_id", node.node_id)
    ELSE NullOverlay

\* zpdes_dependencies.attach_overlay_metrics_to_nodes
attach_overlay_metrics_to_nodes(nodes, frame, query) ==
    LET filtered == Select(frame, { r \in Range(frame) : in_window(r, query) })
    IN  [i \in DOMAIN nodes |->
            [c \in DOMAIN nodes[i] \cup {"overlay_attempts", "overlay_success_rate",
                                         "overlay_repeat_attempt_rate"} |->
                IF c = "overlay_attempts" THEN overlay_of(filtered, nodes[i]).attempts
                ELSE IF c = "overlay_success_rate"
                     THEN overlay_of(filtered, nodes[i]).success_rate
                ELSE IF c = "overlay_repeat_attempt_rate"
                     THEN overlay_of(filtered, nodes[i]).repeat_attempt_rate
                ELSE nodes[i][c]]]

\* an objective with two activities, an objective without rows, the module
\* and a ghost activity without node id
OverlayNodes ==
    << Node(M1, o1, M1O1, "objective", M1O1, M1O1, "catalog", FALSE),
       Node(M1, a1, M1O1A1, "activity", M1O1A1, M1O1, "catalog", FALSE),
       Node(M1, a2, M1O1A2, "activity", M1O1A2, M1O1, "rules", FALSE),
       Node(M1, o2, M1O2, "objective", M1O2, M1O2, "rules", FALSE),
       Node(M1, m1, M1, "module", M1, Null, "rules", FALSE),
       Node(M1, Null, M1O2A1, "activity", M1O2A1, M1O2, "rules", TRUE) >>

OverlayTables == { t \in DailyTables : \A i \in DOMAIN t : t[i].attempts >= 1 }

InitOverlay ==
    /\ pc = "overlay"
    /\ arg = [module_code |-> M1, start_date |-> 1, end_date |-> 2]
    /\ nodes_df \in { OverlayNodes, SubSeq(OverlayNodes, 1, 2) }
    /\ aggs \in { [activity_daily |-> t] : t \in { <<>> } \cup OverlayTables }
    /\ edges_df = <<>> /\ warnings = <<>>
    /\ ret = Unused /\ cells = Unused
    /\ learning_catalog = Unused /\ zpdes_rules = Unused
    /\ exercises_json = Unused /\ parquet = Unused
    /\ frames = Unused /\ joined = Unused /\ fact_attempt_core = Unused

AttachOverlay ==
    /\ pc = "overlay"
    /\ ret' = attach_overlay_metrics_to_nodes(nodes_df, aggs.activity_daily, arg)
    /\ pc' = "overlay_done"
    /\ UNCHANGED <<arg, cells, inputVars, deriveVars, graphVars>>

NextOverlay == AttachOverlay

SpecOverlay == InitOverlay /\ [][NextOverlay]_vars

(***************************************************************************)
(* Ordering specification: build_objective_activity_cells with the metric  *)
(* attempts on a module whose catalog lists the objectives o2 and o1, in    *)
(* that order, and an activity-daily table of at most MaxOrderRows rows     *)
(* that also holds objectives and activities the catalog does not list.     *)
(***************************************************************************)
MaxOrderRows == 3

o3 == <<"o", "3">>
x2 == <<"x", "2">>
objectiv1 == <<"o", "b", "j", "e", "c", "t", "i", "v", "1">>
objectiv2 == <<"o", "b", "j", "e", "c", "t", "i", "v", "2">>

\* the catalog lists o2 before o1, and a2 before a1 under o2; a2 has no title
OrderCatalogs ==
    { [modules |->
           << [id |-> m1, code |-> M1, title |-> Title(<<"M", "o", "d", "1">>),
               objectives |->
                   << [id |-> o2, code |-> M2O2, title |-> Title(<<"O", "b", "j", "2">>),
                       activities |->
                           << [id |-> a2, code |-> M1O1A2, title |-> Title(Null),
                               exercise_ids |-> <<>>],
                              ActivityA1 >>],
                      [id |-> o1, code |-> M1O1, title |-> Title(<<"O", "b", "j", "1">>),
                       activities |-> <<ActivityA1>>] >>] >>,
       exercise_to_hierarchy |-> <<>>,
       id_label_index |-> IdLabelIndex] }

\* the labels the table carries for the unlisted objectives and activities:
\* labels that differ in case, equal labels, the label of a listed
\* objective, no label and an empty label
ObjectiveLabelings ==
    { [o3 |-> <<"B">>, objectiv1 |-> <<"a">>, objectiv2 |-> Null],
      [o3 |-> <<"a">>, objectiv1 |-> <<"a">>, objectiv2 |-> <<"a">>],
      [o3 |-> <<"O", "b", "j", "1">>, objectiv1 |-> Null, objectiv2 |-> <<>>] }

ActivityLabelings ==
    { [x1 |-> <<"B">>, x2 |-> <<"a">>],
      [x1 |-> <<"a">>, x2 |-> <<"a">>],
      [x1 |-> Null, x2 |-> <<>>] }

OrderObjectiveLabel(labeling, objective_id) ==
    IF objective_id = o3 THEN labeling.o3
    ELSE IF objective_id = objectiv1 THEN labeling.objectiv1
    ELSE IF objective_id = objectiv2 THEN labeling.objectiv2
    ELSE Null

OrderActivityLabel(labeling, activity_id) ==
    IF activity_id = x1 THEN labeling.x1
    ELSE IF activity_id = x2 THEN labeling.x2
    ELSE Null

\* the (objective, activity) pairs a table can hold
OrderPairs ==
    { <<o2, a1>>, <<o2, a2>>, <<o2, x1>>, <<o2, x2>>, <<o1, a1>>, <<o1, x1>>,
      <<o3, x1>>, <<objectiv1, x1>>, <<objectiv1, x2>>, <<objectiv2, x1>> }

OrderRow(pair, objective_labeling, activity_labeling) ==
    [date_utc |-> 1, module_code |-> M1, objective_id |-> pair[1],
     objective_label |-> OrderObjectiveLabel(objective_labeling, pair[1]),
     activity_id |-> pair[2],
     activity_label |-> OrderActivityLabel(activity_labeling, pair[2]),
     attempts |-> IF pair = <<o1, a1>> THEN 0 ELSE 1,
     success_rate |-> Num(RateDen), repeat_attempt_rate |-> Num(0)]

\* one table per set of pairs and labelling: the rows of a day, sorted by
\* attempts descending as write_derived_tables sorts them; the row of
\* (o1, a1) has no attempts
OrderTables ==
    { CHOOSE t \in Orders({ OrderRow(p, ol, al) : p \in pairs }) :
          \A i \in DOMAIN t, j \in DOMAIN t : i < j => t[i].attempts >= t[j].attempts :
      pairs \in { s \in SUBSET OrderPairs : Cardinality(s) \in 1..MaxOrderRows },
      ol \in ObjectiveLabelings, al \in ActivityLabelings }

OrderQueries == { [module_code |-> M1, start_date |-> 1, end_date |-> 1, metric |-> "attempts"] }

InitOrder == InitCells(OrderQueries, OrderCatalogs, OrderTables, { <<>> })

SpecOrder == InitOrder /\ [][NextMatrix]_vars

(***************************************************************************)
(* Preferred-code specification: the fact reconciler's and the graph       *)
(* builder's choice of one code among the codes listed for a rules-graph   *)
(* id, on the list as given and on the same list in another order.         *)
(***************************************************************************)
\* longest list of codes of one id
MaxCodes == 3

M1O1A10 == M1O1A1 \o <<"0">>
M1O1A1x == M1O1A1 \o <<"x">>
NanText == <<"n", "a", "n">>

CodePool ==
    { M1O1A1, M1O1A2, M1O1A10, M1O1, M1O2, M1, M2, M1x, M1O1A1x, x1, NanText,
      <<" ">> \o M1O1 \o <<" ">>, <<>>, Null }

CodeLists == UNION { [1..n -> CodePool] : n \in 0..MaxCodes }

InitPreferred ==
    /\ pc = "codes"
    /\ arg \in CodeLists
    /\ ret = Unused
    /\ learning_catalog = Unused /\ zpdes_rules = Unused
    /\ exercises_json = Unused /\ parquet = Unused
    /\ frames = Unused /\ joined = Unused /\ fact_attempt_core = Unused
    /\ aggs = Unused /\ nodes_df = Unused /\ edges_df = Unused
    /\ warnings = Unused /\ cells = Unused

\* derive._rules_id_code_frame on the codes of one id
ChooseDerive ==
    /\ pc = "codes"
    /\ ret' = [chosen_code |-> chosen_code(arg)]
    /\ pc' = "derive"
    /\ UNCHANGED <<arg, inputVars, deriveVars, graphVars, cells>>

\* zpdes_dependencies._preferred_code_from_list on the same codes
ChooseGraph ==
    /\ pc = "derive"
    /\ ret' = [chosen_code |-> ret.chosen_code,
               preferred |-> preferred_code_from_list(arg)]
    /\ pc' = "graph"
    /\ UNCHANGED <<arg, inputVars, deriveVars, graphVars, cells>>

\* both functions once more, on the same codes listed in another order
ChooseReordered ==
    /\ pc = "graph"
    /\ \E p \in Orders(DOMAIN arg) :
           LET reordered == [i \in DOMAIN arg |-> arg[p[i]]]
           IN  ret' = [chosen_code |-> ret.chosen_code,
                       preferred |-> ret.preferred,
                       reordered |-> reordered,
                       chosen_code_reordered |-> chosen_code(reordered),
                       preferred_reordered |-> preferred_code_from_list(reordered)]
    /\ pc' = "reordered"
    /\ UNCHANGED <<arg, inputVars, deriveVars, graphVars, cells>>

NextPreferred == ChooseDerive \/ ChooseGraph \/ ChooseReordered

SpecPreferred == InitPreferred /\ [][NextPreferred]_vars

(***************************************************************************)
(* Write specification: derive.write_derived_tables, statement by          *)
(* statement.  A table is the set of its column names; the builders'       *)
(* results are drawn with up to MaxDefectiveTables aggregates that lack    *)
(* some of their required columns.                                         *)
(***************************************************************************)
\* most aggregates of one run that lack a required column
MaxDefectiveTables == 2

\* the tables of the outputs dict, in the order they are validated and
\* written
AggLabels ==
    << "agg_activity_daily", "agg_objective_daily", "agg_student_module_progress",
       "agg_transition_edges", "agg_module_usage_daily", "agg_student_module_exposure",
       "agg_playlist_module_usage", "agg_module_activity_usage", "agg_exercise_daily" >>

OutputLabels == <<"fact_attempt_core">> \o AggLabels

\* contracts.REQUIRED_FACT_COLUMNS
REQUIRED_FACT_COLUMNS == <<"date_utc", "user_id", "module_code", "mapping_source">>

\* contracts.REQUIRED_AGG_COLUMNS
REQUIRED_AGG_COLUMNS ==
    [label \in Range(AggLabels) |->
        CASE label = "agg_activity_daily" -> <<"date_utc", "activity_id", "attempts">>
          [] label = "agg_objective_daily" -> <<"date_utc", "objective_id", "attempts">>
          [] label = "agg_student_module_progress" -> <<"user_id", "module_code">>
          [] label = "agg_transition_edges" -> <<"from_activity_id", "to_activity_id">>
          [] label = "agg_module_usage_daily" -> <<"date_utc", "module_code", "attempts">>
          [] label = "agg_student_module_exposure" -> <<"user_id", "module_code">>
          [] label = "agg_playlist_module_usage" -> <<"playlist_or_module_id", "module_code">>
          [] label = "agg_module_activity_usage" -> <<"module_code", "activity_id">>
          [] OTHER -> <<"date_utc", "exercise_id", "attempts">>]

\* _validate_required_columns: the missing list, empty when nothing is
\* raised; the mutant never misses a column
validate_required_columns_lenient(columns, required) == <<>>

validate_required_columns(columns, required) ==
    SelectSeq(required, LAMBDA col : col \notin columns)

\* the columns a builder returns for a required list: every required column
\* and one more (kind 0), or the required columns but the first (kind 1), or
\* only the columns between the first and the last (kind 2)
Columns(required, kind) ==
    IF kind = 0 THEN Range(required) \cup {"extra"}
    ELSE IF kind = 1 THEN Range(Tail(required))
    ELSE Range(SubSeq(required, 2, Len(required) - 1))

Complete(required) == Columns(required, 0)

DefectiveSets ==
    { D \in SUBSET Range(AggLabels) : Cardinality(D) <= MaxDefectiveTables }

BuiltAggregates ==
    UNION { { [l \in Range(AggLabels) |->
                 Columns(REQUIRED_AGG_COLUMNS[l], IF l \in D THEN kind[l] ELSE 0)] :
              kind \in [D -> {1, 2}] } : D \in DefectiveSets }

NoError == [label |-> "", missing |-> <<>>]

InitWrite ==
    /\ pc = "write"
    /\ ret = [written |-> <<>>, error |-> NoError, next |-> 1]
    /\ fact_attempt_core = Unused /\ aggs = Unused
    /\ arg = Unused /\ cells = Unused
    /\ learning_catalog = Unused /\ zpdes_rules = Unused
    /\ exercises_json = Unused /\ parquet = Unused
    /\ frames = Unused /\ joined = Unused
    /\ nodes_df = Unused /\ edges_df = Unused /\ warnings = Unused

\* fact = build_fact_attempt_core(settings, sample_rows=sample_rows)
BuildFactTable ==
    /\ pc = "write"
    /\ \E kind \in 0..2 : fact_attempt_core' = Columns(REQUIRED_FACT_COLUMNS, kind)
    /\ pc' = "fact_built"
    /\ UNCHANGED <<textVars, inputVars, frames, joined, aggs, graphVars, cells>>

\* _validate_required_columns(fact, REQUIRED_FACT_COLUMNS, "fact_attempt_core")
ValidateFact ==
    /\ pc = "fact_built"
    /\ \E missing \in { validate_required_columns(fact_attempt_core, REQUIRED_FACT_COLUMNS) } :
           IF missing # <<>>
           THEN /\ ret' = [ret EXCEPT !.error = [label |-> "fact_attempt_core", missing |-> missing]]
                /\ pc' = "raised"
           ELSE /\ ret' = ret
                /\ pc' = "fact_valid"
    /\ UNCHANGED <<arg, inputVars, deriveVars, graphVars, cells>>

\* the nine aggregate builders, called on the validated fact table
BuildAggTables ==
    /\ pc = "fact_valid"
    /\ aggs' \in BuiltAggregates
    /\ pc' = "validating"
    /\ UNCHANGED <<textVars, inputVars, frames, joined, fact_attempt_core, graphVars, cells>>

\* the next of the nine _validate_required_columns calls on the aggregates
ValidateAgg ==
    /\ pc = "validating"
    /\ \E label \in { AggLabels[ret.next] } :
       \E missing \in { validate_required_columns(aggs[label], REQUIRED_AGG_COLUMNS[label]) } :
           IF missing # <<>>
           THEN /\ ret' = [ret EXCEPT !.error = [label |-> label, missing |-> missing]]
                /\ pc' = "raised"
           ELSE IF ret.next < Len(AggLabels)
           THEN /\ ret' = [ret EXCEPT !.next = ret.next + 1]
                /\ pc' = "validating"
           ELSE /\ ret' = [ret EXCEPT !.next = 1]
                /\ pc' = "writing"
    /\ UNCHANGED <<arg, inputVars, deriveVars, graphVars, cells>>

\* the next of the ten write_parquet calls; the function returns after the
\* last one
WriteTable ==
    /\ pc = "writing"
    /\ ret' = [ret EXCEPT !.written = Append(ret.written, OutputLabels[ret.next]),
                          !.next = ret.next + 1]
    /\ pc' = IF ret.next < Len(OutputLabels) THEN "writing" ELSE "returned"
    /\ UNCHANGED <<arg, inputVars, deriveVars, graphVars, cells>>

NextWrite == BuildFactTable \/ ValidateFact \/ BuildAggTables \/ ValidateAgg \/ WriteTable

SpecWrite == InitWrite /\ [][NextWrite]_vars

(***************************************************************************)
(* Catalog specification: catalogs whose flat exercise_to_hierarchy map    *)
(* and nested exercise ids agree or differ, processed by the build         *)
(* (build_fact_attempt_core and the aggregates) and by the contract        *)
(* validation script.                                                      *)
(***************************************************************************)
\* scripts/validate_metadata_contracts._validate_learning_catalog: the
\* exercise ids nested under the activities of the catalog
nested_exercise_ids(catalog) ==
    UNION { { strip_chars(x) :
              x \in { y \in Range(catalog.modules[p[1]].objectives[p[2]].activities[p[3]].exercise_ids) :
                      y # Null /\ strip_chars(y) # <<>> } } :
            p \in { q \in ActivityListings(catalog) :
                    /\ strip_chars(catalog.modules[q[1]].id) # <<>>
                    /\ strip_chars(catalog.modules[q[1]].objectives[q[2]].id) # <<>>
                    /\ strip_chars(catalog.modules[q[1]].objectives[q[2]].activities[q[3]].id) # <<>> } }

\* mapped_exercise_ids = set(exercise_map.keys())
mapped_exercise_ids(catalog) ==
    { catalog.exercise_to_hierarchy[i].exercise_id : i \in DOMAIN catalog.exercise_to_hierarchy }

\* the mismatch error of _validate_learning_catalog, <<>> when the two sets
\* are equal
exercise_mismatch_errors(catalog) ==
    IF nested_exercise_ids(catalog) # mapped_exercise_ids(catalog)
    THEN << [message |-> "exercise_to_hierarchy mismatch with nested modules",
             only_nested |-> Cardinality(nested_exercise_ids(catalog) \ mapped_exercise_ids(catalog)),
             only_flat |-> Cardinality(mapped_exercise_ids(catalog) \ nested_exercise_ids(catalog))] >>
    ELSE <<>>

MapEntry(exercise_id) ==
    [exercise_id |-> exercise_id, activity_id |-> a1, objective_id |-> o1, module_id |-> m1]

\* the flat map agrees with the nested ids (e1 under a1), has one more
\* exercise, has none, or has another exercise instead
CatalogMaps ==
    { <<MapEntry(e1)>>, <<MapEntry(e1), MapEntry(e2)>>, <<>>, <<MapEntry(e2)>> }

CheckedCatalogs ==
    { [modules |-> <<ModuleM1>>, exercise_to_hierarchy |-> x, id_label_index |-> IdLabelIndex] :
      x \in CatalogMaps }

CatalogEvents ==
    { Event(1, u1, Null, o, a, e) : o \in {Null, o1}, a \in {Null, a1}, e \in {Null, e1, e2} }

InitCatalog ==
    InitDerive(CheckedCatalogs, { RulesWith(<<M1O1A1>>, CodeToIdFull) }, Tables(CatalogEvents, 1))

\* validate_metadata_contracts on the catalog: the errors it reports
ValidateLearningCatalog ==
    /\ ret = Unused
    /\ ret' = [errors |-> exercise_mismatch_errors(learning_catalog)]
    /\ UNCHANGED <<pc, arg, inputVars, deriveVars, graphVars, cells>>

NextCatalog == ValidateLearningCatalog \/ NextDerive

SpecCatalog == InitCatalog /\ [][NextCatalog]_vars

(***************************************************************************)
(* Runs specification: the fact reconciler and the activity-daily builder  *)
(* run twice on the same inputs; the aggregate is the frame .collect()     *)
(* returns, rows in order.                                                 *)
(***************************************************************************)
\* most raw events of the two runs
MaxRunRows == 2

\* .sort(["date_utc", "attempts"], descending=[False, True]) on the rows a
\* group_by produced in an order the library does not fix: every order of
\* the rows that is ascending on date_utc and, within a date, descending on
\* attempts
sort_date_attempts(rows) ==
    { f \in Orders(rows) :
        \A i \in DOMAIN f, j \in DOMAIN f :
            i < j => \/ f[i].key.date_utc < f[j].key.date_utc
                     \/ /\ f[i].key.date_utc = f[j].key.date_utc
                        /\ f[i].attempts >= f[j].attempts }

RunCatalogs ==
    { [modules |-> t, exercise_to_hierarchy |-> <<MapEntry(e1)>>, id_label_index |-> IdLabelIndex] :
      t \in Trees }

RunEvents ==
    { Event(d, u1, Null, Null, a, e) : d \in {1, 2}, a \in {Null, a1}, e \in {Null, e1} }

InitRuns ==
    InitDerive(RunCatalogs, { RulesWith(<<M1>>, CodeToIdFull) }, Tables(RunEvents, MaxRunRows))

\* build_agg_activity_daily_from_fact(fact), the frame it returns
CollectActivityDaily ==
    /\ pc = "fact"
    /\ \E f \in sort_date_attempts(build_agg_activity_daily_from_fact(fact_attempt_core)) :
           aggs' = [activity_daily |-> f]
    /\ pc' = "aggs"
    /\ UNCHANGED <<textVars, inputVars, frames, joined, fact_attempt_core, graphVars, cells>>

\* the outputs of the first run are kept and the builders are started again
\* on the same files
RunAgain ==
    /\ pc = "aggs"
    /\ ret = Unused
    /\ ret' = [fact_attempt_core |-> fact_attempt_core, aggs |-> aggs]
    /\ pc' = "raw"
    /\ frames' = Unused /\ joined' = Unused /\ fact_attempt_core' = Unused /\ aggs' = Unused
    /\ UNCHANGED <<arg, inputVars, graphVars, cells>>

NextRuns ==
    \/ LoadLookupFrames
    \/ JoinLookups
    \/ JoinCodeFrames
    \/ ReconcileRows
    \/ CollectActivityDaily
    \/ RunAgain

SpecRuns == InitRuns /\ [][NextRuns]_vars

(***************************************************************************)
(* Replay specification: classroom_progression.build_replay_payload on a   *)
(* bounded fact table.  The created_at values of a table are distinct, so  *)
(* the sort keys after created_at never decide; the payload keeps the      *)
(* fields the frames are made of.                                          *)
(***************************************************************************)
\* most rows of the fact table handed to the replay
MaxReplayRows == 3

c1 == <<"c", "1">>

Max(a, b) == IF a >= b THEN a ELSE b
Min(a, b) == IF a <= b THEN a ELSE b

\* str(value)
str_value(value) == IF value = Null THEN NoneText ELSE value

\* str(value or "")
str_or_empty(value) == IF value = Null THEN <<>> ELSE value

\* _empty_payload
empty_payload(classroom_id, mode_scope) ==
    [classroom_id |-> classroom_id, mode_scope |-> mode_scope,
     student_ids |-> <<>>, activity_ids |-> <<>>,
     frame_step_counts |-> <<0>>, frame_event_counts |-> <<0>>,
     rate_frames |-> << <<>> >>, attempt_frames |-> << <<>> >>,
     total_events_raw |-> 0, total_events_valid_timestamp |-> 0,
     total_sync_steps |-> 0, dropped_invalid_timestamps |-> 0,
     requested_step_size |-> 1, effective_step |-> 1, max_frames |-> 0,
     events_capped |-> FALSE]

\* the while loop of _build_frame_step_counts
RECURSIVE step_cursor(_, _, _, _)
step_cursor(counts, cursor, total_steps, effective_step) ==
    IF cursor < total_steps
    THEN step_cursor(Append(counts, cursor), cursor + Max(1, effective_step),
                     total_steps, effective_step)
    ELSE counts

\* faulty variant: the closing frame at total_steps is not appended
build_frame_step_counts_open(total_steps, effective_step) ==
    IF total_steps <= 0 THEN <<0>>
    ELSE step_cursor(<<0>>, Max(1, effective_step), total_steps, effective_step)

\* _build_frame_step_counts
build_frame_step_counts(total_steps, effective_step) ==
    IF total_steps <= 0 THEN <<0>>
    ELSE LET counts == step_cursor(<<0>>, Max(1, effective_step), total_steps, effective_step)
         IN  IF counts[Len(counts)] # total_steps THEN Append(counts, total_steps) ELSE counts

\* _matrix_rate_snapshot: the rate success / attempts clamped to [0, 1],
\* null without attempts
matrix_rate_snapshot(success_matrix, attempt_matrix) ==
    [a \in DOMAIN attempt_matrix |->
        [s \in DOMAIN attempt_matrix[a] |->
            IF attempt_matrix[a][s] <= 0 THEN NoNumber
            ELSE Fraction(Min(attempt_matrix[a][s], Max(0, success_matrix[a][s])),
                          attempt_matrix[a][s])]]

\* the rows of the classroom, window and work mode
scoped_rows(fact, classroom_txt, mode_scope, query) ==
    SelectSeq(fact, LAMBDA row :
        /\ row.classroom_id # Null /\ row.classroom_id # NoneText
        /\ row.classroom_id = classroom_txt
        /\ row.date_utc >= query.start_date /\ row.date_utc <= query.end_date
        /\ (mode_scope \in {"zpdes", "playlist"} => row.work_mode = mode_scope))

\* .sort(["created_at", ...]) on rows of distinct created_at
RECURSIVE sort_created_at(_)
sort_created_at(rows) ==
    IF rows = <<>> THEN <<>>
    ELSE LET rest == sort_created_at(Tail(rows))
             k == Cardinality({ i \in DOMAIN rest : rest[i].created_at.v < Head(rows).created_at.v })
         IN  SubSeq(rest, 1, k) \o <<Head(rows)>> \o SubSeq(rest, k + 1, Len(rest))

\* group_by(col).agg(created_at.min()).sort(["first_seen", col]): the values
\* of col (null is a group of its own) in the order they first occur in the
\* sorted events
RECURSIVE first_seen_order(_, _, _)
first_seen_order(events, col, acc) ==
    IF events = <<>> THEN acc
    ELSE first_seen_order(Tail(events), col,
                          IF \E i \in DOMAIN acc : acc[i] = Head(events)[col]
                          THEN acc ELSE Append(acc, Head(events)[col]))

\* {id: idx for idx, id in enumerate(ids)}.get(key): the last position of
\* the key, 0 for None
index_get(ids, key) ==
    IF \E i \in DOMAIN ids : ids[i] = key
    THEN CHOOSE i \in DOMAIN ids : ids[i] = key /\ \A j \in DOMAIN ids : ids[j] = key => j <= i
    ELSE 0

\* the inner loops of one frame: every student advances from
\* previous_sync_step to sync_step
advance_frame(state, student_sequences, activity_ids, previous_sync_step, sync_step) ==
    LET visited(s) ==
            { k \in (Min(previous_sync_step, Len(student_sequences[s])) + 1)
                    ..Min(sync_step, Len(student_sequences[s])) : TRUE }
        on(s, a) ==
            { k \in visited(s) :
                index_get(activity_ids, str_or_empty(student_sequences[s][k].activity_id)) = a }
        sum_visited[n \in 0..Len(student_sequences)] ==
            IF n = 0 THEN 0 ELSE sum_visited[n - 1] + Cardinality(visited(n))
    IN  [attempt_matrix |->
             [a \in DOMAIN state.attempt_matrix |->
                 [s \in DOMAIN state.attempt_matrix[a] |->
                     state.attempt_matrix[a][s] + Cardinality(on(s, a))]],
         success_matrix |->
             [a \in DOMAIN state.success_matrix |->
                 [s \in DOMAIN state.success_matrix[a] |->
                     state.success_matrix[a][s]
                     + Cardinality({ k \in on(s, a) : student_sequences[s][k].data_correct = TRUE })]],
         events_processed |-> state.events_processed + sum_visited[Len(student_sequences)]]

\* the states of the matrices after each frame of frame_step_counts[i..]
RECURSIVE replay_frames(_, _, _, _, _)
replay_frames(state, student_sequences, activity_ids, frame_step_counts, i) ==
    IF i > Len(frame_step_counts) THEN <<>>
    ELSE LET next == advance_frame(state, student_sequences, activity_ids,
                                   frame_step_counts[i - 1], frame_step_counts[i])
         IN  <<next>> \o replay_frames(next, student_sequences, activity_ids,
                                        frame_step_counts, i + 1)

\* build_replay_payload past the mode_scope check
build_replay_payload(fact, query) ==
    LET classroom_txt == strip_chars(str_or_empty(query.classroom_id))
        scoped == scoped_rows(fact, classroom_txt, query.mode_scope, query)
        valid_events == SelectSeq(scoped, LAMBDA row : row.created_at # NoNumber)
        events == sort_created_at(valid_events)
        student_raw == first_seen_order(events, "user_id", <<>>)
        student_ids == [i \in DOMAIN student_raw |-> str_value(student_raw[i])]
        activity_raw == first_seen_order(events, "activity_id", <<>>)
        activity_ids == [i \in DOMAIN activity_raw |-> str_value(activity_raw[i])]
        zeros == [a \in DOMAIN activity_ids |-> [s \in DOMAIN student_ids |-> 0]]
        student_sequences ==
            [s \in DOMAIN student_ids |->
                SelectSeq(events, LAMBDA row :
                    index_get(student_ids, str_or_empty(row.user_id)) = s)]
        lengths == { Len(student_sequences[s]) : s \in DOMAIN student_sequences }
        total_sync_steps == IF lengths = {} THEN 0 ELSE CHOOSE n \in lengths : \A m \in lengths : m <= n
        requested_step == Max(1, query.step_size)
        cap == Max(1, query.max_frames)
        cap_step == IF total_sync_steps > 0
                    THEN Max(1, (total_sync_steps + cap - 1) \div cap) ELSE 1
        effective_step == Max(requested_step, cap_step)
        frame_step_counts == build_frame_step_counts(total_sync_steps, effective_step)
        snapshots == replay_frames([attempt_matrix |-> zeros, success_matrix |-> zeros,
                                 events_processed |-> 0],
                                student_sequences, activity_ids, frame_step_counts, 2)
    IN  IF classroom_txt = <<>> THEN empty_payload(<<>>, query.mode_scope)
        ELSE IF Len(valid_events) <= 0
        THEN [empty_payload(classroom_txt, query.mode_scope) EXCEPT
                 !.total_events_raw = Len(scoped),
                 !.total_events_valid_timestamp = Len(valid_events),
                 !.dropped_invalid_timestamps = Len(scoped) - Len(valid_events),
                 !.requested_step_size = Max(1, query.step_size),
                 !.effective_step = Max(1, query.step_size),
                 !.max_frames = Max(1, query.max_frames)]
        ELSE [classroom_id |-> classroom_txt, mode_scope |-> query.mode_scope,
              student_ids |-> student_ids, activity_ids |-> activity_ids,
              frame_step_counts |-> frame_step_counts,
              frame_event_counts |->
                  <<0>> \o [f \in DOMAIN snapshots |-> snapshots[f].events_processed],
              rate_frames |->
                  << [a \in DOMAIN activity_ids |-> [s \in DOMAIN student_ids |-> NoNumber]] >>
                  \o [f \in DOMAIN snapshots |->
                         matrix_rate_snapshot(snapshots[f].success_matrix, snapshots[f].attempt_matrix)],
              attempt_frames |->
                  <<zeros>> \o [f \in DOMAIN snapshots |-> snapshots[f].attempt_matrix],
              total_events_raw |-> Len(scoped),
              total_events_valid_timestamp |-> Len(valid_events),
              total_sync_steps |-> total_sync_steps,
              dropped_invalid_timestamps |-> Len(scoped) - Len(valid_events),
              requested_step_size |-> requested_step,
              effective_step |-> effective_step,
              max_frames |-> cap,
              events_capped |-> effective_step > requested_step]

\* a row of the fact table; the rows of a table get their created_at from
\* their position
ReplayRow(user_id, activity_id, data_correct, created, work_mode) ==
    [created_at |-> IF created THEN Num(0) ELSE NoNumber, date_utc |-> 1,
     user_id |-> user_id, activity_id |-> activity_id,
     data_correct |-> data_correct, work_mode |-> work_mode, classroom_id |-> c1]

ReplayRows ==
    { ReplayRow(u1, a1, TRUE, TRUE, "zpdes"), ReplayRow(u2, a1, TRUE, TRUE, "zpdes"),
      ReplayRow(u1, Null, TRUE, TRUE, "zpdes"), ReplayRow(Null, a1, TRUE, TRUE, "zpdes") }
    \cup { ReplayRow(u1, a1, FALSE, TRUE, "zpdes"),
           ReplayRow(u1, a2, TRUE, TRUE, "zpdes"),
           ReplayRow(u1, a1, TRUE, FALSE, "zpdes"),
           ReplayRow(u1, a1, TRUE, TRUE, "playlist") }

\* the tables of up to MaxReplayRows rows, created_at ascending or
\* descending along the table
ReplayFacts ==
    UNION { { [i \in 1..n |->
                 IF t[i].created_at = NoNumber THEN t[i]
                 ELSE [t[i] EXCEPT !.created_at = Num(IF up THEN i ELSE n + 1 - i)]] :
              t \in [1..n -> ReplayRows], up \in BOOLEAN } : n \in 0..MaxReplayRows }

ReplayQuery(classroom_id, mode_scope, max_frames, step_size) ==
    [classroom_id |-> classroom_id, mode_scope |-> mode_scope,
     start_date |-> 1, end_date |-> 1, max_frames |-> max_frames, step_size |-> step_size]

ReplayQueries ==
    { ReplayQuery(c1, "zpdes", m, s) : m \in 0..2, s \in 0..2 }
    \cup { ReplayQuery(<<" ">>, "zpdes", 1, 2), ReplayQuery(c1, "all", 2, 1),
           ReplayQuery(c1, "other", 1, 1) }

InitReplay ==
    /\ pc = "replay"
    /\ arg \in ReplayQueries
    /\ fact_attempt_core \in ReplayFacts
    /\ ret = Unused
    /\ learning_catalog = Unused /\ zpdes_rules = Unused
    /\ exercises_json = Unused /\ parquet = Unused
    /\ frames = Unused /\ joined = Unused /\ aggs = Unused
    /\ nodes_df = Unused /\ edges_df = Unused /\ warnings = Unused /\ cells = Unused

\* build_replay_payload: an unsupported mode_scope raises, every other call
\* returns a payload
BuildReplayPayload ==
    /\ pc = "replay"
    /\ IF arg.mode_scope \notin {"zpdes", "playlist", "all"}
       THEN /\ ret' = [error |-> "Unsupported mode_scope"]
            /\ pc' = "raised"
       ELSE /\ ret' = build_replay_payload(fact_attempt_core, arg)
            /\ pc' = "payload"
    /\ UNCHANGED <<arg, inputVars, deriveVars, graphVars, cells>>

NextReplay == BuildReplayPayload

SpecReplay == InitReplay /\ [][NextReplay]_vars

(***************************************************************************)
(* C1, C2, C3 and C8: the fact reconciler (SpecFact).                      *)
(***************************************************************************)
Reconciled == pc \in {"fact", "aggs"}

\* C1: build_fact_attempt_core produces exactly one reconciled row per raw
\* attempt event: no event is dropped and no event is duplicated, whatever
\* the catalog lists an activity under.
C1_OneRowPerEvent ==
    Reconciled =>
        /\ Len(fact_attempt_core) = Len(parquet)
        /\ \A i \in DOMAIN parquet :
               Cardinality({ k \in DOMAIN joined : joined[k].src = i }) = 1

\* the tiers that contribute a module identity to the joined row w
ContributesModule(w, tier) ==
    CASE tier = "catalog_activity" ->
             w.module_id # Null \/ w.module_code # Null \/ w.module_label # Null
      [] tier = "catalog_exercise" ->
             \/ w.module_id_exercise_summary # Null
             \/ w.module_code_exercise_summary # Null
             \/ w.module_label_exercise_summary # Null
      [] tier = "rules_code_fallback" ->
             \/ w.module_id_fallback # Null
             \/ w.module_code_fallback # Null
             \/ w.module_label_fallback # Null

FirstContributingTier(w) ==
    IF ContributesModule(w, "catalog_activity") THEN "catalog_activity"
    ELSE IF ContributesModule(w, "catalog_exercise") THEN "catalog_exercise"
    ELSE IF ContributesModule(w, "rules_code_fallback") THEN "rules_code_fallback"
    ELSE "unmapped"

InExerciseToHierarchy(id) ==
    \E i \in DOMAIN learning_catalog.exercise_to_hierarchy :
        learning_catalog.exercise_to_hierarchy[i].exercise_id = id

\* C2: mapping_source names the first tier, in the order catalog_activity >
\* catalog_exercise > rules_code_fallback > unmapped, that contributed the
\* module identity of the row; an event with null activity_id and
\* objective_id whose exercise_id is in exercise_to_hierarchy is tagged
\* catalog_exercise.
C2_MappingSourceNamesFirstTier ==
    Reconciled =>
        \A k \in DOMAIN fact_attempt_core :
            /\ fact_attempt_core[k].mapping_source = FirstContributingTier(joined[k])
            /\ ( /\ joined[k].activity_id = Null
                 /\ joined[k].objective_id = Null
                 /\ InExerciseToHierarchy(joined[k].exercise_id) )
               => fact_attempt_core[k].mapping_source = "catalog_exercise"

\* C3: a reconciled row is tagged unmapped exactly when its final
\* module_code is null, that is when none of the three tiers gave one.
C3_UnmappedIffNoModuleCode ==
    Reconciled =>
        \A k \in DOMAIN fact_attempt_core :
            /\ (fact_attempt_core[k].mapping_source = "unmapped")
                   <=> (fact_attempt_core[k].module_code = Null)
            /\ (fact_attempt_core[k].mapping_source = "unmapped")
                   <=> ( /\ joined[k].module_code = Null
                         /\ joined[k].module_code_exercise_summary = Null
                         /\ joined[k].module_code_fallback = Null )

\* an unmapped row is kept although the rules give its playlist a code,
\* and another run tags a row from the rules fallback
C3_Witness ==
    /\ Reconciled
    /\ \E k \in DOMAIN fact_attempt_core :
           /\ fact_attempt_core[k].mapping_source = "unmapped"
           /\ fact_attempt_core[k].fallback_code_raw # Null
           /\ fact_attempt_core[k].module_code = Null

\* the three tiers of the row k, read from the inputs and the lookup frames
Tier1(k) ==
    LET e == normalized_event(parquet[joined[k].src])
    IN  [activity_id |-> e.activity_id,
         objective_id |-> coalesce(<<e.objective_id, joined[k].objective_id_summary>>),
         objective_id_summary |-> joined[k].objective_id_summary,
         module_id |-> joined[k].module_id,
         module_code |-> joined[k].module_code,
         module_label |-> joined[k].module_label,
         objective_label |-> joined[k].objective_label,
         activity_label |-> joined[k].activity_label]

Tier2(k) ==
    LET x == LookupOne(frames.exercise_hierarchy, "exercise_id",
                       normalized_id_expr(parquet[joined[k].src].exercise_id), NoExercise)
    IN  [activity_id |-> x.activity_id_exercise_summary,
         objective_id |-> x.objective_id_exercise_summary,
         objective_id_summary |-> x.objective_id_exercise_summary,
         module_id |-> x.module_id_exercise_summary,
         module_code |-> x.module_code_exercise_summary,
         module_label |-> x.module_label_exercise_summary,
         objective_label |-> x.objective_label_exercise_summary,
         activity_label |-> x.activity_label_exercise_summary]

Tier3(k) ==
    [activity_id |-> joined[k].activity_id_fallback,
     objective_id |-> joined[k].objective_id_fallback,
     objective_id_summary |-> joined[k].objective_id_fallback,
     module_id |-> joined[k].module_id_fallback,
     module_code |-> joined[k].module_code_fallback,
     module_label |-> joined[k].module_label_fallback,
     objective_label |-> joined[k].objective_label_fallback,
     activity_label |-> joined[k].activity_label_fallback]

ReconciledFields ==
    {"activity_id", "objective_id", "objective_id_summary", "module_id", "module_code",
     "module_label", "objective_label", "activity_label"}

\* C8: every reconciled field is the tier-1 value when that is non-null,
\* otherwise the exercise hierarchy value when non-null, otherwise the
\* rules-code fallback value.
C8_ExerciseFallbackOnlyFillsGaps ==
    Reconciled =>
        \A k \in DOMAIN fact_attempt_core :
            \A t1 \in {Tier1(k)}, t2 \in {Tier2(k)}, t3 \in {Tier3(k)} :
                \A c \in ReconciledFields :
                    fact_attempt_core[k][c] =
                        IF t1[c] # Null THEN t1[c]
                        ELSE IF t2[c] # Null THEN t2[c]
                        ELSE t3[c]

\* a row whose module label is given by all three tiers, the rules fallback
\* giving another label than the catalog, and a row the exercise tier fills
C8_Witness ==
    /\ Reconciled
    /\ \E k \in DOMAIN fact_attempt_core :
           /\ Tier1(k).module_label # Null
           /\ Tier2(k).module_label # Null
           /\ Tier3(k).module_label # Null
           /\ Tier3(k).module_label # Tier1(k).module_label
           /\ fact_attempt_core[k].module_label = Tier1(k).module_label

(***************************************************************************)
(* C4 and C5: the dependency graph builder (SpecGraph).                    *)
(***************************************************************************)
NodesWithCode(code) == { i \in DOMAIN nodes_df : nodes_df[i].node_code = code }

\* C4: after the derivation every edge endpoint resolves to exactly one
\* node: from_node_code and to_node_code of every edge are each the
\* node_code of exactly one row of the node table, and node_code is unique
\* in the node table.
C4_EveryEndpointResolves ==
    pc = "graph_done" =>
        /\ \A j \in DOMAIN edges_df :
               /\ Cardinality(NodesWithCode(edges_df[j].from_node_code)) = 1
               /\ Cardinality(NodesWithCode(edges_df[j].to_node_code)) = 1
        /\ \A i \in DOMAIN nodes_df : NodesWithCode(nodes_df[i].node_code) = {i}

\* C5: after the derivation every node of the node table (catalog node,
\* rule-only node or ghost node) that no activation edge targets has
\* init_open = true.
C5_DefaultOpen ==
    pc = "graph_done" =>
        \A i \in DOMAIN nodes_df :
            (~\E j \in DOMAIN edges_df :
                  /\ edges_df[j].edge_type = "activation"
                  /\ edges_df[j].to_node_code = nodes_df[i].node_code)
            => nodes_df[i].init_open

(***************************************************************************)
(* C6: the aggregate builders (SpecAgg).                                   *)
(***************************************************************************)
\* no two rows of the table agree on the columns cols
KeyUnique(table, cols) ==
    \A r1 \in table, r2 \in table :
        Project(r1.key, cols) = Project(r2.key, cols) => r1 = r2

\* C6: no two output rows of an aggregate share the grain key of the
\* aggregate: (date_utc, module_code) for module-usage-daily, (user_id,
\* module_code) for student-module exposure, (playlist_or_module_id,
\* module_code) for playlist-module usage, (module_code, activity_id) for
\* module-activity usage, (date_utc, module_code, objective_id,
\* activity_id, exercise_id) for exercise-daily.
C6_GrainKeysUnique ==
    pc = "aggs" =>
        /\ KeyUnique(aggs.module_usage_daily, {"date_utc", "module_code"})
        /\ KeyUnique(aggs.student_module_exposure, {"user_id", "module_code"})
        /\ KeyUnique(aggs.playlist_module_usage, {"playlist_or_module_id", "module_code"})
        /\ KeyUnique(aggs.module_activity_usage, {"module_code", "activity_id"})
        /\ KeyUnique(aggs.exercise_daily,
                     {"date_utc", "module_code", "objective_id", "activity_id",
                      "exercise_id"})

(***************************************************************************)
(* C11: the activity-daily aggregate (SpecDaily).                          *)
(***************************************************************************)
FactRowsOf(key) ==
    { i \in DOMAIN fact_attempt_core : Project(fact_attempt_core[i], DOMAIN key) = key }

FirstAttemptsOf(key) ==
    { i \in FactRowsOf(key) : fact_attempt_core[i].attempt_number = 1 }

CorrectOf(I) == { i \in I : fact_attempt_core[i].data_correct }

\* C11: in the activity-daily aggregate every group reports attempts = the
\* number of its fact rows, success_rate = correct rows / rows,
\* first_attempt_count = the rows with attempt_number = 1, and
\* first_attempt_success_rate = correct first attempts / first attempts (null
\* when the group has no first attempt), whatever the later attempts are.
C11_FirstAttemptRateUndiluted ==
    pc = "aggs" =>
        \A g \in aggs.activity_daily :
            /\ g.attempts = Cardinality(FactRowsOf(g.key))
            /\ g.attempts > 0
            /\ g.success_rate.kind = "frac"
            /\ g.success_rate.num * g.attempts
                   = Cardinality(CorrectOf(FactRowsOf(g.key))) * g.success_rate.den
            /\ g.first_attempt_count = Cardinality(FirstAttemptsOf(g.key))
            /\ IF FirstAttemptsOf(g.key) = {}
               THEN g.first_attempt_success_rate = NoNumber
               ELSE /\ g.first_attempt_success_rate.kind = "frac"
                    /\ g.first_attempt_success_rate.num * Cardinality(FirstAttemptsOf(g.key))
                           = Cardinality(CorrectOf(FirstAttemptsOf(g.key)))
                                 * g.first_attempt_success_rate.den

\* a group of three attempts: a correct first attempt, a failed and a
\* correct later attempt
C11_Witness ==
    /\ pc = "aggs"
    /\ \E g \in aggs.activity_daily :
           /\ g.key.activity_id = a1
           /\ g.attempts = 3
           /\ g.first_attempt_count = 1
           /\ g.first_attempt_success_rate.kind = "frac"
           /\ g.first_attempt_success_rate.num = g.first_attempt_success_rate.den
           /\ g.success_rate.num * 3 = 2 * g.success_rate.den

(***************************************************************************)
(* C12: the playlist-module usage aggregate (SpecAgg).                     *)
(***************************************************************************)
PlaylistFactRows(playlist) ==
    { i \in DOMAIN fact_attempt_core :
      fact_attempt_core[i].playlist_or_module_id = playlist }

\* C12: a playlist_or_module_id with at least one fact row of non-null
\* module_code has no playlist-module usage row with a null module_code; a
\* playlist whose fact rows all have a null module_code keeps its
\* null-module row, which counts all of them.
C12_MappedPlaylistDropsNullModule ==
    pc = "aggs" =>
        \A k \in DOMAIN fact_attempt_core :
            LET playlist == fact_attempt_core[k].playlist_or_module_id
                nullRows == { g \in aggs.playlist_module_usage :
                              /\ g.key.playlist_or_module_id = playlist
                              /\ g.key.module_code = Null }
            IN  IF \E i \in PlaylistFactRows(playlist) :
                       fact_attempt_core[i].module_code # Null
                THEN nullRows = {}
                ELSE /\ Cardinality(nullRows) = 1
                     /\ \A g \in nullRows :
                            g.attempts = Cardinality(PlaylistFactRows(playlist))

\* a playlist with a mapped and an unmapped attempt: the fact table has its
\* null-module row, the aggregate only its mapped row
C12_Witness ==
    /\ pc = "aggs"
    /\ \E i, j \in DOMAIN fact_attempt_core :
           /\ fact_attempt_core[i].playlist_or_module_id = p1
           /\ fact_attempt_core[j].playlist_or_module_id = p1
           /\ fact_attempt_core[i].module_code = Null
           /\ fact_attempt_core[j].module_code # Null
    /\ \E g \in aggs.playlist_module_usage :
           g.key.playlist_or_module_id = p1 /\ g.key.module_code # Null /\ g.attempts = 1

(***************************************************************************)
(* C7: the matrix builder (SpecMatrix).                                    *)
(***************************************************************************)
\* the rows of the activity-daily table a cell is computed from
MatchingRows(objective_id, activity_id) ==
    { i \in DOMAIN aggs.activity_daily :
      /\ in_window(aggs.activity_daily[i], arg)
      /\ aggs.activity_daily[i].objective_id = objective_id
      /\ aggs.activity_daily[i].activity_id = activity_id }

RECURSIVE SumAttempts(_)
SumAttempts(I) ==
    IF I = {} THEN 0
    ELSE LET i == CHOOSE x \in I : TRUE
         IN  aggs.activity_daily[i].attempts + SumAttempts(I \ {i})

\* sum of rate * attempts over the rows I, in RateDen-ths
RECURSIVE SumRateTimesAttempts(_, _)
SumRateTimesAttempts(I, col) ==
    IF I = {} THEN 0
    ELSE LET i == CHOOSE x \in I : TRUE
         IN  aggs.activity_daily[i][col].v * aggs.activity_daily[i].attempts
             + SumRateTimesAttempts(I \ {i}, col)

CellsOf(objective_id, activity_id) ==
    { k \in DOMAIN cells :
      cells[k].objective_id = objective_id /\ cells[k].activity_id = activity_id }

\* C7: for the metrics success_rate and repeat_attempt_rate, every
\* (objective, activity) pair with rows in the selected module and date
\* window has one cell, and the value of the cell is the attempt-weighted
\* mean of the rate over those rows, sum(rate_i * attempts_i) /
\* sum(attempts_i) (taken over rows that all carry the rate); when the
\* attempts of the rows sum to zero the value is 0.0, and it is a number in
\* every case.
C7_AttemptWeightedMean ==
    (pc = "cells_done" /\ arg.metric \in {"success_rate", "repeat_attempt_rate"}) =>
        /\ \A i \in DOMAIN aggs.activity_daily :
               (/\ in_window(aggs.activity_daily[i], arg)
                /\ aggs.activity_daily[i].objective_id # Null
                /\ aggs.activity_daily[i].activity_id # Null)
               => Cardinality(CellsOf(aggs.activity_daily[i].objective_id,
                                      aggs.activity_daily[i].activity_id)) = 1
        /\ \A k \in DOMAIN cells :
               LET I == MatchingRows(cells[k].objective_id, cells[k].activity_id)
                   value == cells[k].metric_value
               IN  /\ I # {}
                   /\ value.den > 0
                   /\ SumAttempts(I) = 0 => value.num = 0
                   /\ (/\ SumAttempts(I) > 0
                       /\ \A i \in I : aggs.activity_daily[i][arg.metric].kind = "num")
                      => value.num * (RateDen * SumAttempts(I))
                             = SumRateTimesAttempts(I, arg.metric) * value.den

\* a success_rate cell averaged over two rows of different rates and
\* different positive attempt counts
C7_Witness ==
    /\ pc = "cells_done"
    /\ arg.metric = "success_rate"
    /\ \E k \in DOMAIN cells :
          \E i, j \in MatchingRows(cells[k].objective_id, cells[k].activity_id) :
             /\ aggs.activity_daily[i].attempts = 2
             /\ aggs.activity_daily[j].attempts = 1
             /\ aggs.activity_daily[i].success_rate = Num(RateDen)
             /\ aggs.activity_daily[j].success_rate = Num(0)
             /\ cells[k].metric_value.num * 3 = 2 * cells[k].metric_value.den

(***************************************************************************)
(* C13: the exercise-balanced metric (SpecBalanced).                       *)
(***************************************************************************)
\* the exercise-daily rows of the window a cell is computed from
ExerciseRowsOf(objective_id, activity_id) ==
    { i \in DOMAIN aggs.exercise_daily :
      /\ in_window(aggs.exercise_daily[i], arg)
      /\ aggs.exercise_daily[i].objective_id = objective_id
      /\ aggs.exercise_daily[i].activity_id = activity_id }

RECURSIVE ExerciseAttempts(_)
ExerciseAttempts(I) ==
    IF I = {} THEN 0
    ELSE LET i == CHOOSE x \in I : TRUE
         IN  aggs.exercise_daily[i].attempts + ExerciseAttempts(I \ {i})

\* sum of rate * attempts over the rows I, in RateDen-ths
RECURSIVE ExerciseCorrect(_)
ExerciseCorrect(I) ==
    IF I = {} THEN 0
    ELSE LET i == CHOOSE x \in I : TRUE
         IN  aggs.exercise_daily[i].success_rate.v * aggs.exercise_daily[i].attempts
             + ExerciseCorrect(I \ {i})

\* the exercises of the rows I that have attempts
AttemptedExercises(I) ==
    { e \in { aggs.exercise_daily[i].exercise_id : i \in I } :
      ExerciseAttempts({ i \in I : aggs.exercise_daily[i].exercise_id = e }) > 0 }

\* sum over the exercises E of (correct_e / (RateDen * attempts_e)), as the
\* pair <<numerator, denominator>>
RECURSIVE SumOfExerciseRates(_, _)
SumOfExerciseRates(I, E) ==
    IF E = {} THEN <<0, 1>>
    ELSE LET e == CHOOSE x \in E : TRUE
             Ie == { i \in I : aggs.exercise_daily[i].exercise_id = e }
             rest == SumOfExerciseRates(I, E \ {e})
         IN  <<ExerciseCorrect(Ie) * rest[2] + rest[1] * (RateDen * ExerciseAttempts(Ie)),
               (RateDen * ExerciseAttempts(Ie)) * rest[2]>>

\* C13: with the metric exercise_balanced_success_rate every cell is the
\* unweighted mean, over the exercises of its activity that have attempts in
\* the window, of the attempts-weighted success rate of each exercise,
\* sum(rate * attempts) / sum(attempts); an exercise counts once whatever
\* its volume.
C13_ExerciseBalancedMean ==
    (pc = "cells_done" /\ arg.metric = "exercise_balanced_success_rate") =>
        \A k \in DOMAIN cells :
            LET I == ExerciseRowsOf(cells[k].objective_id, cells[k].activity_id)
                E == AttemptedExercises(I)
                total == SumOfExerciseRates(I, E)
                value == cells[k].metric_value
            IN  /\ E # {}
                /\ value.den > 0
                /\ value.num * (total[2] * Cardinality(E)) = total[1] * value.den

\* a cell of two exercises, one with two attempts all correct and one with
\* one failed attempt: the balanced rate is 1/2, the pooled rate 2/3
C13_Witness ==
    /\ pc = "cells_done"
    /\ arg.metric = "exercise_balanced_success_rate"
    /\ \E k \in DOMAIN cells :
           LET I == ExerciseRowsOf(cells[k].objective_id, cells[k].activity_id)
           IN  /\ Cardinality(AttemptedExercises(I)) = 2
               /\ ExerciseAttempts(I) = 3
               /\ ExerciseCorrect(I) = 2 * RateDen
               /\ cells[k].metric_value.num * 2 = cells[k].metric_value.den

(***************************************************************************)
(* C14: row and column order of the cell table (SpecOrder).                *)
(***************************************************************************)
\* the objective ids the catalog declares for the module of the query, in
\* declared order
DeclaredObjectives ==
    LET found == { i \in DOMAIN learning_catalog.modules :
                   learning_catalog.modules[i].code = arg.module_code }
    IN  IF found = {} THEN <<>>
        ELSE [k \in DOMAIN learning_catalog.modules[FirstIdx(found)].objectives |->
                 learning_catalog.modules[FirstIdx(found)].objectives[k].id]

\* the activity ids the catalog declares under an objective of that module
DeclaredActivities(objective_id) ==
    LET found == { i \in DOMAIN learning_catalog.modules :
                   learning_catalog.modules[i].code = arg.module_code }
        listed == { k \in DOMAIN learning_catalog.modules[FirstIdx(found)].objectives :
                    learning_catalog.modules[FirstIdx(found)].objectives[k].id
                        = objective_id }
    IN  IF found = {} \/ listed = {} THEN <<>>
        ELSE [n \in DOMAIN learning_catalog.modules[FirstIdx(found)]
                               .objectives[FirstIdx(listed)].activities |->
                 learning_catalog.modules[FirstIdx(found)]
                     .objectives[FirstIdx(listed)].activities[n].id]

\* 1-based position of an id in a declared order, 0 when it is not declared
DeclaredPos(order, id) ==
    IF \E i \in DOMAIN order : order[i] = id
    THEN CHOOSE i \in DOMAIN order : order[i] = id
    ELSE 0

SameText(s) == s

\* (label, id) comes strictly before (other_label, other_id)
LabelIdLess(label, id, other_label, other_id) ==
    \/ StrLess(label, other_label)
    \/ label = other_label /\ StrLess(id, other_id)

\* an entry declared at position p comes before one declared at position q:
\* declared entries by position, then the others by (fold(label), id)
Precedes(p, q, fold(_), label, id, other_label, other_id) ==
    IF p > 0 /\ q > 0 THEN p < q
    ELSE IF p > 0 THEN TRUE
    ELSE IF q > 0 THEN FALSE
    ELSE LabelIdLess(fold(label), id, fold(other_label), other_id)

\* every two cells of the table stand in the order of their objectives, and
\* inside an objective in the order of their activities
CellsOrdered(fold(_)) ==
    \A i \in DOMAIN cells, j \in DOMAIN cells :
        i < j =>
            IF cells[i].objective_id # cells[j].objective_id
            THEN Precedes(DeclaredPos(DeclaredObjectives, cells[i].objective_id),
                          DeclaredPos(DeclaredObjectives, cells[j].objective_id),
                          fold,
                          cells[i].objective_label, cells[i].objective_id,
                          cells[j].objective_label, cells[j].objective_id)
            ELSE Precedes(DeclaredPos(DeclaredActivities(cells[i].objective_id),
                                      cells[i].activity_id),
                          DeclaredPos(DeclaredActivities(cells[i].objective_id),
                                      cells[j].activity_id),
                          fold,
                          cells[i].activity_label, cells[i].activity_id,
                          cells[j].activity_label, cells[j].activity_id)

\* the column index of a cell is one more than the number of cells of its
\* objective before it
ColumnsContiguous ==
    \A i \in DOMAIN cells :
        cells[i].activity_col_idx
            = 1 + Cardinality({ j \in 1..(i - 1) :
                                cells[j].objective_id = cells[i].objective_id })

\* C14 as stated: listed objectives come first in declared order and the
\* others follow sorted by (label, id), the same holds for the activities of
\* each objective, and the column indices of an objective are 1..n.
C14_OrderByLabelAndId == CellsOrdered(SameText) /\ ColumnsContiguous

\* C14, amended: listed objectives come first in declared order and the
\* others follow sorted by (lower-cased label, id), the same holds for the
\* activities of each objective, and the column indices of an objective are
\* 1..n without gap or repeat.
C14_OrderByLoweredLabelAndId == CellsOrdered(to_lowercase) /\ ColumnsContiguous

\* an objective with a listed activity and two unlisted ones whose labels
\* come in one order as written and in the other once lower-cased
C14_Witness ==
    \E i \in DOMAIN cells, j \in DOMAIN cells, k \in DOMAIN cells :
        /\ i < j /\ j < k
        /\ cells[i].objective_id = cells[k].objective_id
        /\ cells[j].objective_id = cells[k].objective_id
        /\ DeclaredPos(DeclaredActivities(cells[i].objective_id), cells[i].activity_id) > 0
        /\ DeclaredPos(DeclaredActivities(cells[j].objective_id), cells[j].activity_id) = 0
        /\ DeclaredPos(DeclaredActivities(cells[k].objective_id), cells[k].activity_id) = 0
        /\ StrLess(cells[k].activity_label, cells[j].activity_label)
        /\ cells[k].activity_col_idx = 3

(***************************************************************************)
(* C15: objective row labels and the label-or-id fallback (SpecOrder).     *)
(***************************************************************************)
\* the objectives of the cell table that show a base label
ObjectivesLabelled(label) ==
    { cells[i].objective_id : i \in { k \in DOMAIN cells : cells[k].objective_label = label } }

\* the first eight characters of an id
ShortId(id) == SubSeq(id, 1, IF Len(id) < 8 THEN Len(id) ELSE 8)

\* a base label of one objective is shown as is, a shared one gets the
\* short id in brackets
RowLabelRule ==
    \A i \in DOMAIN cells :
        cells[i].objective_row_label
            = IF Cardinality(ObjectivesLabelled(cells[i].objective_label)) <= 1
              THEN cells[i].objective_label
              ELSE cells[i].objective_label \o <<" ", "(">>
                   \o ShortId(cells[i].objective_id) \o <<")">>

\* the rows of the activity-daily table a cell is aggregated from
SourceRows(cell) ==
    { r \in Range(aggs.activity_daily) :
      /\ in_window(r, arg)
      /\ r.objective_id = cell.objective_id
      /\ r.activity_id = cell.activity_id }

Blank(label) == label = Null \/ label = <<>>

\* a label of the table is shown; an objective or activity without label in
\* the table and without entry in the catalog shows its id
LabelOrId ==
    \A i \in DOMAIN cells : \A r \in SourceRows(cells[i]) :
        /\ ~Blank(r.objective_label) => cells[i].objective_label = r.objective_label
        /\ ~Blank(r.activity_label) => cells[i].activity_label = r.activity_label
        /\ (Blank(r.objective_label)
            /\ DeclaredPos(DeclaredObjectives, cells[i].objective_id) = 0)
           => cells[i].objective_label = cells[i].objective_id
        /\ (Blank(r.activity_label)
            /\ \A k \in DOMAIN DeclaredObjectives :
                   DeclaredPos(DeclaredActivities(DeclaredObjectives[k]),
                               cells[i].activity_id) = 0)
           => cells[i].activity_label = cells[i].activity_id

\* no two objectives of the cell table share a row label, and no row label
\* is empty
RowLabelsDistinct ==
    \A i \in DOMAIN cells, j \in DOMAIN cells :
        /\ cells[i].objective_row_label # <<>>
        /\ cells[i].objective_id # cells[j].objective_id
           => cells[i].objective_row_label # cells[j].objective_row_label

\* C15: any two distinct objective ids of the cell table have distinct,
\* non-empty row labels; a label of a single objective is shown as is, a
\* shared label gets a short-id suffix, and an objective or activity without
\* label is labelled with its id.
C15_RowLabelsDisambiguated == RowLabelsDistinct /\ RowLabelRule /\ LabelOrId

(***************************************************************************)
(* C16: the dense payload of the cell table (SpecOrder).                   *)
(***************************************************************************)
\* the cells of an objective at a column
CellsAt(objective_id, col) ==
    { i \in DOMAIN cells :
      cells[i].objective_id = objective_id /\ cells[i].activity_col_idx = col }

\* the largest column index of the cell table, 0 when it is empty
WidestRow ==
    IF cells = <<>> THEN 0
    ELSE CHOOSE n \in { cells[i].activity_col_idx : i \in DOMAIN cells } :
             \A i \in DOMAIN cells : cells[i].activity_col_idx <= n

\* C16: the payload has one row per distinct objective of the cell table,
\* every row has exactly max(activity_col_idx) entries, an entry is non-null
\* exactly when a cell exists for its objective and column, and then it is
\* the metric value of that cell; the non-null entries of a row are as many
\* as the cells of its objective, and a missing cell is null, never 0.
C16_PayloadDenseAndNullPadded ==
    pc = "payload_done" =>
        /\ Len(ret.z_values) = Len(ret.objective_ids)
        /\ { ret.objective_ids[r] : r \in DOMAIN ret.objective_ids }
               = { cells[i].objective_id : i \in DOMAIN cells }
        /\ Len(ret.objective_ids)
               = Cardinality({ cells[i].objective_id : i \in DOMAIN cells })
        /\ ret.max_activity_cols = WidestRow
        /\ \A r \in DOMAIN ret.z_values :
               /\ Len(ret.z_values[r]) = WidestRow
               /\ \A c \in DOMAIN ret.z_values[r] :
                      IF CellsAt(ret.objective_ids[r], c) = {}
                      THEN ret.z_values[r][c] = NoNumber
                      ELSE /\ ret.z_values[r][c] # NoNumber
                           /\ \A i \in CellsAt(ret.objective_ids[r], c) :
                                  ret.z_values[r][c] = cells[i].metric_value
               /\ Cardinality({ c \in DOMAIN ret.z_values[r] :
                                ret.z_values[r][c] # NoNumber })
                      = Cardinality({ i \in DOMAIN cells :
                                      cells[i].objective_id = ret.objective_ids[r] })

\* a payload of two rows where the shorter objective is padded with a null
\* and a cell without attempts shows 0
C16_Witness ==
    /\ pc = "payload_done"
    /\ Len(ret.z_values) = 2
    /\ \E r \in DOMAIN ret.z_values, c \in 1..ret.max_activity_cols :
           /\ ret.z_values[r][c] = NoNumber
           /\ \E d \in 1..ret.max_activity_cols : ret.z_values[r][d] = Fraction(0, 1)

(***************************************************************************)
(* C17: the lane filter (SpecFilter).                                      *)
(***************************************************************************)
\* the selected lanes: the codes of the selection without surrounding
\* spaces, blank entries left out
SelectedLanes == { strip_chars(arg[i]) : i \in DOMAIN arg } \ { <<>> }

NoRepeat(items) == \A i \in DOMAIN items, j \in DOMAIN items : items[i] = items[j] => i = j

\* C17: the filter returns exactly the nodes whose objective_code is
\* selected and exactly the edges whose two endpoints are codes of returned
\* nodes, so an edge with a filtered endpoint is dropped and none is
\* rewritten; an empty selection returns nothing; filtering the result again
\* with the same selection returns it unchanged.
C17_FilterKeepsInternalEdgesOnly ==
    pc \in {"filtered", "refiltered"} =>
        /\ NoRepeat(ret.first.nodes) /\ NoRepeat(ret.first.edges)
        /\ Range(ret.first.nodes)
               = { n \in Range(nodes_df) : n.objective_code \in SelectedLanes }
        /\ Range(ret.first.edges)
               = { e \in Range(edges_df) :
                   /\ \E n \in Range(ret.first.nodes) : n.node_code = e.from_node_code
                   /\ \E n \in Range(ret.first.nodes) : n.node_code = e.to_node_code }
        /\ (SelectedLanes = {} => (ret.first.nodes = <<>> /\ ret.first.edges = <<>>))
        /\ (pc = "refiltered" => ret.second = ret.first)

\* a selection that keeps a node and an edge inside its lane and drops an
\* edge that comes from a node of another lane, and the second call has run
C17_Witness ==
    /\ pc = "refiltered"
    /\ ret.first.nodes # <<>>
    /\ ret.first.edges # <<>>
    /\ \E e \in Range(edges_df) \ Range(ret.first.edges) :
           /\ \E n \in Range(ret.first.nodes) : n.node_code = e.to_node_code
           /\ \E n \in Range(nodes_df) \ Range(ret.first.nodes) :
                  n.node_code = e.from_node_code /\ n.objective_code # Null

(***************************************************************************)
(* C18: deduplication of the derived edges (SpecGraph).                    *)
(***************************************************************************)
EdgesBuilt == pc \in {"ruled", "opened", "graph_done"} /\ ModuleRuleHits(zpdes_rules, arg) # {}

\* the dedup key of an edge of the table
EdgeKey(edge) ==
    <<edge.edge_type, edge.from_node_code, edge.to_node_code, edge.threshold_value>>

\* the edges the rule entries of the module ask for, in rule order, those
\* with an empty endpoint left out, each with its dedup key
RequestedKeys ==
    LET by_code == rule_by_code(module_rule_of(zpdes_rules, arg))
        requested ==
            Flatten([j \in DOMAIN by_code |->
                        requested_edges(module_rule_of(zpdes_rules, arg),
                                        by_code[j].code, by_code[j].node)])
        complete(e) == clean_str(e.from_code) # <<>> /\ clean_str(e.to_code) # <<>>
        kept == SelectSeq(requested, complete)
    IN  [i \in DOMAIN kept |->
            [key |-> <<kept[i].edge_type, clean_str(kept[i].from_code),
                       clean_str(kept[i].to_code), round_6(kept[i].threshold)>>,
             entry |-> kept[i]]]

\* C18: no two edges of the derived edge table share (edge_type,
\* from_node_code, to_node_code, rounded threshold) or an edge_id; every
\* key the rule entries produce has its edge, and that edge is the one of
\* the first entry with the key.
C18_EdgesDeduplicated ==
    EdgesBuilt =>
        \A requested \in {RequestedKeys} :
            /\ \A i \in DOMAIN edges_df, j \in DOMAIN edges_df :
                   i # j => /\ EdgeKey(edges_df[i]) # EdgeKey(edges_df[j])
                            /\ edges_df[i].edge_id # edges_df[j].edge_id
            /\ \A r \in DOMAIN requested :
                   \E i \in DOMAIN edges_df : EdgeKey(edges_df[i]) = requested[r].key
            /\ \A i \in DOMAIN edges_df :
                   \E r \in DOMAIN requested :
                       /\ requested[r].key = EdgeKey(edges_df[i])
                       /\ \A q \in 1..(r - 1) : requested[q].key # requested[r].key
                       /\ edges_df[i].enrich_sr = requested[r].entry.enrich_sr
                       /\ edges_df[i].enrich_lvl = requested[r].entry.enrich_lvl
                       /\ edges_df[i].rule_text = requested[r].entry.rule_text

\* two rule entries with thresholds that round to the same value gave one
\* edge, which carries the threshold of the first as given
C18_Witness ==
    /\ EdgesBuilt
    /\ \E requested \in {RequestedKeys} :
       \E q \in DOMAIN requested, r \in DOMAIN requested :
           /\ q < r
           /\ requested[q].key = requested[r].key
           /\ requested[q].entry.threshold # requested[r].entry.threshold
           /\ \E i \in DOMAIN edges_df :
                  /\ EdgeKey(edges_df[i]) = requested[q].key
                  /\ edges_df[i].enrich_sr = requested[q].entry.threshold

(***************************************************************************)
(* C19: the stored topology snapshot (SpecMetadata).                       *)
(***************************************************************************)
\* the tables are the rows of the entry, each with the columns of the
\* schema: the values of the entry, and null in the columns it lacks
ReturnedVerbatim(table, rows, columns) ==
    /\ Len(table) = Len(rows)
    /\ \A i \in DOMAIN table :
           /\ DOMAIN table[i] = columns
           /\ \A c \in columns :
                  IF c \in DOMAIN rows[i] THEN table[i][c] = rows[i][c]
                  ELSE table[i][c] = Null

\* the call never enters the derivation and ends with the tables of the
\* entry and without warnings
SnapshotReturned(entry) ==
    /\ pc \in {"metadata", "graph_done"}
    /\ pc = "graph_done" =>
           /\ ReturnedVerbatim(nodes_df, entry.nodes, NodeColumns)
           /\ ReturnedVerbatim(edges_df, entry.edges, EdgeColumns)
           /\ warnings = <<>>

\* the tables come from the derivation: a module without module rule gives
\* a warning, any other module has the nodes of its catalog entry
DerivedTables ==
    IF ModuleRuleHits(zpdes_rules, arg) = {} THEN warnings # <<>>
    ELSE \A n \in Range(catalog_nodes(arg, learning_catalog, zpdes_rules)) :
             HasKey(nodes_df, "node_code", n.node_code)

\* C19 as stated: whenever the rules payload carries a dependency_topology
\* entry for the requested module, its nodes and edges are returned
\* verbatim, padded with nulls, without derivation and without warnings.
C19_EveryEntryReturned ==
    \A i \in DOMAIN zpdes_rules.dependency_topology :
        zpdes_rules.dependency_topology[i].module_code = arg
            => SnapshotReturned(zpdes_rules.dependency_topology[i])

\* C19, amended: whenever the rules payload carries a dependency_topology
\* entry for the requested module that holds at least one node or edge, its
\* nodes and edges are returned verbatim, padded with nulls, without
\* derivation and without warnings; the derivation runs when the module has
\* no entry or an entry without nodes and edges.
C19_NonEmptySnapshotReturned ==
    /\ \A i \in DOMAIN zpdes_rules.dependency_topology :
           (/\ zpdes_rules.dependency_topology[i].module_code = arg
            /\ \/ zpdes_rules.dependency_topology[i].nodes # <<>>
               \/ zpdes_rules.dependency_topology[i].edges # <<>>)
               => SnapshotReturned(zpdes_rules.dependency_topology[i])
    /\ (/\ pc = "graph_done"
        /\ \A i \in DOMAIN zpdes_rules.dependency_topology :
               \/ zpdes_rules.dependency_topology[i].module_code # arg
               \/ /\ zpdes_rules.dependency_topology[i].nodes = <<>>
                  /\ zpdes_rules.dependency_topology[i].edges = <<>>)
           => DerivedTables

\* a snapshot without the column is_ghost and without edges was returned
C19_Witness ==
    /\ pc = "graph_done"
    /\ nodes_df # <<>>
    /\ edges_df = <<>>
    /\ \E i \in DOMAIN zpdes_rules.dependency_topology :
           /\ zpdes_rules.dependency_topology[i].module_code = arg
           /\ \E k \in DOMAIN zpdes_rules.dependency_topology[i].nodes :
                  "is_ghost" \notin DOMAIN zpdes_rules.dependency_topology[i].nodes[k]
    /\ \A k \in DOMAIN nodes_df : nodes_df[k].is_ghost = Null

(***************************************************************************)
(* C20: overlay metrics of the nodes (SpecOverlay).                        *)
(***************************************************************************)
\* the window rows whose column col holds the id of a node
OverlayRows(col, node_id) ==
    { i \in DOMAIN aggs.activity_daily :
      /\ in_window(aggs.activity_daily[i], arg)
      /\ node_id # Null
      /\ aggs.activity_daily[i][col] = node_id }

\* the overlays of an output row are the sum of attempts over the rows I and
\* the attempts-weighted means of the rates the rows carry, or null without
\* rows
WeightedOverlay(row, I) ==
    IF I = {}
    THEN /\ row.overlay_attempts = NoNumber
         /\ row.overlay_success_rate = NoNumber
         /\ row.overlay_repeat_attempt_rate = NoNumber
    ELSE /\ row.overlay_attempts = Num(SumAttempts(I))
         /\ (\A i \in I : aggs.activity_daily[i].success_rate # NoNumber)
                => /\ row.overlay_success_rate.den > 0
                   /\ row.overlay_success_rate.num * RateDen * SumAttempts(I)
                          = SumRateTimesAttempts(I, "success_rate")
                                * row.overlay_success_rate.den
         /\ (\A i \in I : aggs.activity_daily[i].repeat_attempt_rate # NoNumber)
                => /\ row.overlay_repeat_attempt_rate.den > 0
                   /\ row.overlay_repeat_attempt_rate.num * RateDen * SumAttempts(I)
                          = SumRateTimesAttempts(I, "repeat_attempt_rate")
                                * row.overlay_repeat_attempt_rate.den

\* C20: every input node has exactly one output row, with its columns
\* unchanged; an activity node carries the sum of attempts and the
\* attempts-weighted rates of the window rows of its activity_id, an
\* objective node those of the window rows of its objective_id, and a node
\* of another type or without matching rows carries null overlays.
C20_OverlayWeightedByNodeType ==
    pc = "overlay_done" =>
        /\ Len(ret) = Len(nodes_df)
        /\ \A k \in DOMAIN ret :
               /\ \A c \in DOMAIN nodes_df[k] : ret[k][c] = nodes_df[k][c]
               /\ WeightedOverlay(ret[k],
                                  IF nodes_df[k].node_type = "activity"
                                  THEN OverlayRows("activity_id", nodes_df[k].node_id)
                                  ELSE IF nodes_df[k].node_type = "objective"
                                  THEN OverlayRows("objective_id", nodes_df[k].node_id)
                                  ELSE {})

\* an activity with rows of two days with different attempts and rates, so
\* that the weighted mean is not the mean of the daily rates, next to a
\* module node whose overlays are null
C20_Witness ==
    /\ pc = "overlay_done"
    /\ \E k \in DOMAIN ret :
           /\ ret[k].node_type = "activity"
           /\ ret[k].overlay_attempts = Num(3)
           /\ ret[k].overlay_success_rate # NoNumber
           /\ ret[k].overlay_success_rate.num * 2 # ret[k].overlay_success_rate.den
           /\ ret[k].overlay_success_rate.num # 0
           /\ ret[k].overlay_success_rate.num # ret[k].overlay_success_rate.den
    /\ \E k \in DOMAIN ret :
           ret[k].node_type = "module" /\ ret[k].overlay_attempts = NoNumber

(***************************************************************************)
(* C21: the preferred code of an id (SpecPreferred).                       *)
(***************************************************************************)
\* the usable codes of the list: the non-null entries, trimmed, that are
\* not empty
UsableCodes == { strip_chars(arg[i]) : i \in { k \in DOMAIN arg : arg[k] # Null /\ strip_chars(arg[k]) # <<>> } }

\* code is the preferred one of the set: best shape, then longest, then
\* lexicographically smallest
IsPreferredOf(code, usable) ==
    /\ code \in usable
    /\ \A other \in usable \ {code} :
           \/ ShapeRank(code) < ShapeRank(other)
           \/ ShapeRank(code) = ShapeRank(other) /\ Len(code) > Len(other)
           \/ ShapeRank(code) = ShapeRank(other) /\ Len(code) = Len(other) /\ StrLess(code, other)

\* the fact reconciler follows the preference rule
DerivePreferenceRule ==
    pc \in {"derive", "graph", "reordered"} =>
        IF UsableCodes = {} THEN ret.chosen_code = Null
        ELSE IsPreferredOf(ret.chosen_code, UsableCodes)

\* neither builder's choice depends on the order of the list
PreferenceOrderIndependent ==
    pc = "reordered" =>
        /\ ret.chosen_code_reordered = ret.chosen_code
        /\ ret.preferred_reordered = ret.preferred

\* both builders choose the same code from a list of several usable codes
BuildersAgree ==
    (pc \in {"graph", "reordered"} /\ Cardinality(UsableCodes) >= 2) =>
        ret.preferred = ret.chosen_code

\* both builders choose the same code, on lists that hold no code "nan"
BuildersAgreeWithoutNan ==
    (pc \in {"graph", "reordered"} /\ \A code \in UsableCodes : to_lowercase(code) # NanText) =>
        ret.preferred = ret.chosen_code

\* C21: for an id with several codes exactly one preferred code is chosen,
\* whatever the order of the code list (activity shape before objective
\* shape before module shape before unknown shape, then the longest code,
\* then the lexicographically smallest), and the fact reconciler and the
\* graph builder choose the same code from the same list.
C21_PreferredCodeAgreed ==
    /\ DerivePreferenceRule
    /\ PreferenceOrderIndependent
    /\ BuildersAgree

(***************************************************************************)
(* C22: the required-column contracts of write_derived_tables (SpecWrite). *)
(***************************************************************************)
FactBuilt == pc # "write"

AggsBuilt == pc \in {"validating", "writing", "returned"} \/ (pc = "raised" /\ aggs # Unused)

\* the required columns the table of a label lacks
Lacking(label) ==
    IF label = "fact_attempt_core"
    THEN { col \in Range(REQUIRED_FACT_COLUMNS) : col \notin fact_attempt_core }
    ELSE { col \in Range(REQUIRED_AGG_COLUMNS[label]) : col \notin aggs[label] }

\* the built tables that lack a required column
DefectiveTables ==
    (IF FactBuilt /\ Lacking("fact_attempt_core") # {} THEN {"fact_attempt_core"} ELSE {})
    \cup (IF AggsBuilt THEN { l \in Range(AggLabels) : Lacking(l) # {} } ELSE {})

\* C22: write_derived_tables raises a data-contract error naming the
\* missing columns when the reconciled fact table or any aggregate lacks a
\* required column, and then no derived table file has been written: every
\* contract validation precedes the first file write.
C22_ContractsCheckedBeforeWrites ==
    /\ (ret.written # <<>>) => (DefectiveTables = {} /\ pc \in {"writing", "returned"})
    /\ (pc \in {"writing", "returned"}) => (AggsBuilt /\ DefectiveTables = {})
    /\ (pc = "raised") =>
           /\ ret.written = <<>>
           /\ ret.error.label \in DefectiveTables
           /\ Range(ret.error.missing) = Lacking(ret.error.label)
           /\ ret.error.missing # <<>>
    /\ (pc = "returned") => ret.written = OutputLabels

\* a run whose fact table is complete, whose aggregates are built, one of
\* them lacking a column, and which has raised
C22_Witness ==
    /\ pc = "raised"
    /\ ret.error.label = "agg_exercise_daily"
    /\ Cardinality(DefectiveTables) = 1
    /\ ret.written = <<>>

(***************************************************************************)
(* C23: catalogs whose flat map and nested exercise ids differ             *)
(* (SpecCatalog).                                                          *)
(***************************************************************************)
NestedExercises ==
    UNION { Range(learning_catalog.modules[p[1]].objectives[p[2]].activities[p[3]].exercise_ids) :
            p \in ActivityListings(learning_catalog) }

FlatExercises ==
    { learning_catalog.exercise_to_hierarchy[i].exercise_id :
      i \in DOMAIN learning_catalog.exercise_to_hierarchy }

Divergent == NestedExercises # FlatExercises

\* the validation script reports an error on every divergent catalog
ValidationRejectsDivergent ==
    (Divergent /\ ret # Unused) => ret.errors # <<>>

\* C23: processing a catalog fails with a data error whenever the key set of
\* the flat exercise_to_hierarchy map differs from the set of exercise ids
\* nested under activities; neither the catalog model nor the build accepts
\* or merges a divergent catalog.
C23_DivergentCatalogRejected ==
    /\ ValidationRejectsDivergent
    /\ Divergent => pc = "raw"

(***************************************************************************)
(* C24: two runs on identical inputs (SpecRuns).                           *)
(***************************************************************************)
SecondRun == ret # Unused

\* the second run reconciles the same fact table as the first
FactRunsIdentical ==
    (SecondRun /\ pc \in {"fact", "aggs"}) => fact_attempt_core = ret.fact_attempt_core

\* the second run returns the same activity-daily frame as the first
\* whenever it reconciled the same fact table
AggregateRunsIdentical ==
    (SecondRun /\ pc = "aggs" /\ fact_attempt_core = ret.fact_attempt_core) => aggs = ret.aggs

\* C24: the engine is deterministic: a builder run twice on identical inputs
\* yields identical outputs, row order included, also when several rows tie
\* on the sort keys (date_utc, attempts) or when deduplication has several
\* candidate rows for one key.
C24_RunsIdentical ==
    /\ FactRunsIdentical
    /\ AggregateRunsIdentical

(***************************************************************************)
(* C25, C26 and C27: the replay payload (SpecReplay).                      *)
(***************************************************************************)
\* the rows of the fact table that are in the scope of the query and have
\* a timestamp
ValidRows ==
    { i \in DOMAIN fact_attempt_core :
        /\ fact_attempt_core[i].classroom_id = strip_chars(arg.classroom_id)
        /\ fact_attempt_core[i].date_utc \in arg.start_date..arg.end_date
        /\ (arg.mode_scope # "all" => fact_attempt_core[i].work_mode = arg.mode_scope)
        /\ fact_attempt_core[i].created_at # NoNumber }

\* the events of one student, given by the raw user_id (null included)
EventsOf(user_id) == { i \in ValidRows : fact_attempt_core[i].user_id = user_id }

\* the first min(c, n_s) events of a student in timestamp order
FirstEvents(user_id, c) ==
    { i \in EventsOf(user_id) :
        Cardinality({ j \in EventsOf(user_id) :
                      fact_attempt_core[j].created_at.v < fact_attempt_core[i].created_at.v }) < c }

\* the raw id an axis entry stands for
RawId(id) == IF id = NoneText THEN Null ELSE id

\* the events a cell of the frame of step count c stands for
CellEvents(activity_id, student_id, c) ==
    { i \in FirstEvents(RawId(student_id), c) :
        fact_attempt_core[i].activity_id = RawId(activity_id) }

Students == DOMAIN ret.student_ids
Activities == DOMAIN ret.activity_ids
Frames == DOMAIN ret.frame_step_counts

FrameZeroEmpty ==
    pc = "payload" =>
        \A a \in Activities, s \in Students :
            ret.rate_frames[1][a][s] = NoNumber /\ ret.attempt_frames[1][a][s] = 0

AttemptsNeverDecrease ==
    pc = "payload" =>
        \A f \in Frames, a \in Activities, s \in Students :
            f > 1 => ret.attempt_frames[f][a][s] >= ret.attempt_frames[f - 1][a][s]

CellsCountFirstEvents ==
    pc = "payload" =>
        \A f \in Frames, a \in Activities, s \in Students :
            \E on \in { CellEvents(ret.activity_ids[a], ret.student_ids[s], ret.frame_step_counts[f]) } :
                /\ ret.attempt_frames[f][a][s] = Cardinality(on)
                /\ ret.rate_frames[f][a][s] =
                       IF on = {} THEN NoNumber
                       ELSE Fraction(Cardinality({ i \in on : fact_attempt_core[i].data_correct }),
                                     Cardinality(on))

RatesInUnitInterval ==
    pc = "payload" =>
        \A f \in Frames, a \in Activities, s \in Students :
            \E rate \in { ret.rate_frames[f][a][s] } :
                /\ (rate = NoNumber) <=> (ret.attempt_frames[f][a][s] = 0)
                /\ (rate # NoNumber) => (0 <= rate.num /\ rate.num <= rate.den)

\* no event of the replay has a null user_id or a null activity_id
NoNullIds ==
    \A i \in ValidRows :
        fact_attempt_core[i].user_id # Null /\ fact_attempt_core[i].activity_id # Null

\* the cells count the first events whenever no id is null
CellsCountFirstEventsWithoutNull == NoNullIds => CellsCountFirstEvents

\* C25: frame 0 of the replay payload is empty, and at the frame whose step
\* count is c each (activity, student) cell counts exactly the student's
\* first min(c, n_s) events in timestamp order on that activity; attempt
\* counts never decrease from one frame to the next, and a cell's rate is
\* successes / attempts in [0, 1], null exactly when its attempts are 0.
C25_FramesCumulative ==
    /\ FrameZeroEmpty
    /\ CellsCountFirstEvents
    /\ AttemptsNeverDecrease
    /\ RatesInUnitInterval

CeilDiv(n, d) == (n + d - 1) \div d

StepCountsByEffectiveStep ==
    /\ ret.frame_step_counts[1] = 0
    /\ ret.frame_step_counts[Len(ret.frame_step_counts)] = ret.total_sync_steps
    /\ \A f \in Frames :
           f > 1 => /\ ret.frame_step_counts[f] > ret.frame_step_counts[f - 1]
                    /\ ret.frame_step_counts[f] =
                           Min(ret.frame_step_counts[f - 1] + ret.effective_step,
                               ret.total_sync_steps)

EffectiveStepRule ==
    ret.effective_step =
        Max(Max(1, arg.step_size), CeilDiv(ret.total_sync_steps, Max(1, arg.max_frames)))

CappedRule == ret.events_capped <=> (ret.effective_step > ret.requested_step_size)

\* C26 as stated: every payload has effective_step = max(max(1, step_size),
\* ceil(total_sync_steps / max(1, max_frames))), frame_step_counts starts at
\* 0, increases strictly by effective_step and ends at total_sync_steps, has
\* at most max_frames frames after the initial one, and events_capped is
\* true exactly when effective_step exceeds the requested step.
C26_FrameCapApplied ==
    pc = "payload" =>
        /\ EffectiveStepRule
        /\ StepCountsByEffectiveStep
        /\ Len(ret.frame_step_counts) - 1 <= arg.max_frames
        /\ CappedRule

\* C26, amended: the effective step follows the rule for a non-blank
\* classroom id (a blank one returns the empty payload, whose effective_step
\* is 1), and the number of frames after the initial one never exceeds
\* max(1, max_frames); the step counts and events_capped are as stated.
C26_FrameCapAppliedFromOneFrame ==
    pc = "payload" =>
        /\ (strip_chars(arg.classroom_id) # <<>>) => EffectiveStepRule
        /\ StepCountsByEffectiveStep
        /\ Len(ret.frame_step_counts) - 1 <= Max(1, arg.max_frames)
        /\ CappedRule

\* a capped replay whose last frame is shorter than the effective step
C26_Witness ==
    /\ pc = "payload"
    /\ ret.events_capped
    /\ ret.effective_step = 2
    /\ ret.frame_step_counts = <<0, 2, 3>>
    /\ arg.max_frames = 2

\* the events replayed up to the frame of step count c: for every student
\* the first min(c, n_s) ones
ReplayedUpTo(c) ==
    { i \in ValidRows : i \in FirstEvents(fact_attempt_core[i].user_id, c) }

EventCountsFollowSteps ==
    pc = "payload" =>
        /\ ret.frame_event_counts[1] = 0
        /\ Len(ret.frame_event_counts) = Len(ret.frame_step_counts)
        /\ \A f \in Frames :
               /\ f > 1 => ret.frame_event_counts[f] >= ret.frame_event_counts[f - 1]
               /\ ret.frame_event_counts[f] = Cardinality(ReplayedUpTo(ret.frame_step_counts[f]))

AllValidEventsReplayed ==
    pc = "payload" =>
        /\ ret.total_events_valid_timestamp = Cardinality(ValidRows)
        /\ ret.frame_event_counts[Len(ret.frame_event_counts)] = ret.total_events_valid_timestamp

\* every event is replayed whenever no user_id is null
AllValidEventsReplayedWithoutNullUser ==
    (\A i \in ValidRows : fact_attempt_core[i].user_id # Null) =>
        (EventCountsFollowSteps /\ AllValidEventsReplayed)

\* C27: every in-scope event with a valid timestamp is replayed exactly
\* once: frame_event_counts starts at 0, never decreases, equals the sum
\* over students of min(step count, the student's event count) at each
\* frame, and its last value is total_events_valid_timestamp, for any mix of
\* students and any user_id or activity_id values, null included.
C27_EveryValidEventReplayedOnce ==
    /\ EventCountsFollowSteps
    /\ AllValidEventsReplayed

(***************************************************************************)
(* C28: the requirement entries and the derived edges (SpecEdges).         *)
(***************************************************************************)
\* the requirement entries and deactivation conditions of the rule nodes of
\* the module
RuleEntries ==
    LET by_code == rule_by_code(module_rule_of(zpdes_rules, arg))
    IN  UNION {
            UNION { { [edge_type |-> "activation", source_id |-> req.sources[i].source_id,
                       target_id |-> req.target_id, sr |-> req.sources[i].sr] :
                      i \in DOMAIN req.sources } :
                    req \in Range(by_code[j].node.rules.requirements) }
            \cup
            UNION { { [edge_type |-> "deactivation", source_id |-> req.conditions[i].dim,
                       target_id |-> req.target_id, sr |-> req.conditions[i].sr] :
                      i \in DOMAIN req.conditions } :
                    req \in Range(by_code[j].node.rules.deact_requirements) } :
            j \in DOMAIN by_code }

PreferredCode(id) == resolve_code_from_id(module_rule_of(zpdes_rules, arg), id)

\* the entry has its edge: of its type and rounded threshold, from the
\* preferred code of its source and to the preferred code of its target,
\* for each of the two ids that has a code
HasEdge(entry) ==
    \E i \in DOMAIN edges_df :
        /\ edges_df[i].edge_type = entry.edge_type
        /\ edges_df[i].threshold_value = round_6(entry.sr)
        /\ (PreferredCode(entry.source_id) # <<>>) =>
               edges_df[i].from_node_code = PreferredCode(entry.source_id)
        /\ (PreferredCode(entry.target_id) # <<>>) =>
               edges_df[i].to_node_code = PreferredCode(entry.target_id)

\* every entry whose source id has a code has its edge
CodedSourcesYieldEdges ==
    EdgesBuilt =>
        \A entry \in RuleEntries : (PreferredCode(entry.source_id) # <<>>) => HasEdge(entry)

\* C28: every (target_id, source_id) entry of requirements[0] yields an
\* activation edge from the preferred code of source_id to the preferred
\* code of target_id and every condition of deact_requirements[0] yields a
\* deactivation edge, identical edges being merged; no entry is dropped
\* because one of its ids has no code or no node.
C28_EveryRequirementYieldsEdge ==
    EdgesBuilt => \A entry \in RuleEntries : HasEdge(entry)

(***************************************************************************)
(* C29: the ghost warning and the ghost nodes (SpecGraph).                 *)
(***************************************************************************)
GhostNodes == { k \in DOMAIN nodes_df : nodes_df[k].is_ghost = TRUE }

GhostWarnings == { k \in DOMAIN warnings : warnings[k].kind = "ghost_nodes" }

\* the codes the edges reference that are neither objective- nor
\* activity-shaped
UnshapedReferences ==
    { c \in { edges_df[j].from_node_code : j \in DOMAIN edges_df }
            \cup { edges_df[j].to_node_code : j \in DOMAIN edges_df } :
      node_type_from_code_strict(c) \notin {"objective", "activity"} }

\* the warning counts the ghost nodes whenever every referenced code is
\* objective- or activity-shaped
GhostWarningCountsShapedReferences ==
    (pc = "graph_done" /\ UnshapedReferences = {}) =>
        /\ (GhostWarnings # {}) <=> (GhostNodes # {})
        /\ \A k \in GhostWarnings : warnings[k].count = Cardinality(GhostNodes)

TierModule(w, tier) ==
    CASE tier = "catalog_activity" ->
             [module_id |-> w.module_id, module_code |-> w.module_code,
              module_label |-> w.module_label]
      [] tier = "catalog_exercise" ->
             [module_id |-> w.module_id_exercise_summary,
              module_code |-> w.module_code_exercise_summary,
              module_label |-> w.module_label_exercise_summary]
      [] tier = "rules_code_fallback" ->
             [module_id |-> w.module_id_fallback, module_code |-> w.module_code_fallback,
              module_label |-> w.module_label_fallback]
      [] tier = "unmapped" ->
             [module_id |-> Null, module_code |-> Null, module_label |-> Null]

\* the module id and label of the row are those its tier offers
ModuleOfOneTier(k) ==
    LET offered == TierModule(joined[k], fact_attempt_core[k].mapping_source)
    IN  /\ fact_attempt_core[k].module_id = offered.module_id
        /\ fact_attempt_core[k].module_label = offered.module_label

\* the module code of every row is the one its tier offers
ModuleCodeFromTaggedTier ==
    Reconciled =>
        \A k \in DOMAIN fact_attempt_core :
            fact_attempt_core[k].module_code =
                TierModule(joined[k], fact_attempt_core[k].mapping_source).module_code

\* a row whose tier offers a module id and a module label carries them
CompleteTierSuppliesModule ==
    Reconciled =>
        \A k \in DOMAIN fact_attempt_core :
            LET offered == TierModule(joined[k], fact_attempt_core[k].mapping_source)
            IN  (offered.module_id # Null /\ offered.module_label # Null)
                    => ModuleOfOneTier(k)

\* a row tagged unmapped has neither module code nor module id nor label
UnmappedHasNoModule ==
    Reconciled =>
        \A k \in DOMAIN fact_attempt_core :
            (fact_attempt_core[k].mapping_source = "unmapped") =>
                /\ fact_attempt_core[k].module_code = Null
                /\ fact_attempt_core[k].module_id = Null
                /\ fact_attempt_core[k].module_label = Null

\* a row tagged with a tier takes its module id and label from that tier
MappedModuleOfOneTier ==
    Reconciled =>
        \A k \in DOMAIN fact_attempt_core :
            (fact_attempt_core[k].mapping_source # "unmapped") => ModuleOfOneTier(k)

\* C30: module_id, module_code and module_label of a reconciled row are
\* taken from the same tier: a row tagged unmapped has null module_id,
\* module_label and module_code, and a row tagged with a tier never carries
\* a module_id or module_label that another tier than the one of its
\* module_code supplied.
C30_ModuleIdentityCoherent ==
    Reconciled =>
        \A k \in DOMAIN fact_attempt_core :
            /\ fact_attempt_core[k].module_code =
                   TierModule(joined[k], fact_attempt_core[k].mapping_source).module_code
            /\ ModuleOfOneTier(k)

(***************************************************************************)
(* C9 and C10: the text functions.                                         *)
(***************************************************************************)
\* every text obtained from s by dropping only spaces at both ends and left
\* with no space at either end
TrimmedForms(s) ==
    { SubSeq(s, i + 1, Len(s) - j) :
        <<i, j>> \in { p \in (0..Len(s)) \X (0..Len(s)) :
                        /\ p[1] + p[2] <= Len(s)
                        /\ \A k \in 1..p[1] : s[k] = " "
                        /\ \A k \in (Len(s) - p[2] + 1)..Len(s) : s[k] = " "
                        /\ LET t == SubSeq(s, p[1] + 1, Len(s) - p[2])
                           IN  t = <<>> \/ (t[1] # " " /\ t[Len(t)] # " ") } }

ClaimPlaceholders ==
    { <<>>, <<"n", "o", "n", "e">>, <<"n", "u", "l", "l">>, <<"n", "a", "n">> }

\* C9: identifier normalisation gives null exactly for a null value or a
\* value whose trimmed, lower-cased form is "", "none", "null" or "nan";
\* every other value is kept, trimmed; normalising twice equals normalising
\* once (so every later tier sees a placeholder as the same null a missing
\* value is).
C9_NormalizationIsPlaceholderNulling ==
    (pc = "done" /\ ret.kind = "id") =>
        /\ (ret.once = Null) <=>
              (arg.s = Null
               \/ \E t \in TrimmedForms(arg.s) : to_lowercase(t) \in ClaimPlaceholders)
        /\ (ret.once # Null) => (ret.once \in TrimmedForms(arg.s))
        /\ ret.twice = ret.once

\* a padded, mixed-case placeholder has been normalised to null
C9_Witness ==
    /\ pc = "done"
    /\ ret.kind = "id"
    /\ arg.s = <<" ", "N", "a", "n">>
    /\ ret.once = Null

\* C10: the decomposition follows the grammar M<n>, M<n>O<n>, M<n>O<n>A<n>:
\* an activity-shaped code yields its three prefixes, an objective-shaped
\* code yields module and objective prefixes and no activity code, a
\* module-shaped code yields only the module code, and a code of none of the
\* three shapes yields no module, objective or activity code.
C10_DecompositionFailsClosed ==
    (pc = "done" /\ ret.kind = "code") =>
        /\ ACTIVITY_CODE_RE(arg.s) =>
              /\ ret.activity_code_fallback = arg.s
              /\ OBJECTIVE_CODE_RE(ret.objective_code_fallback)
              /\ MODULE_CODE_RE(ret.module_code_fallback)
        /\ OBJECTIVE_CODE_RE(arg.s) =>
              /\ ret.activity_code_fallback = Null
              /\ ret.objective_code_fallback = arg.s
              /\ MODULE_CODE_RE(ret.module_code_fallback)
        /\ MODULE_CODE_RE(arg.s) =>
              /\ ret.activity_code_fallback = Null
              /\ ret.objective_code_fallback = Null
              /\ ret.module_code_fallback = arg.s
        /\ (~ACTIVITY_CODE_RE(arg.s) /\ ~OBJECTIVE_CODE_RE(arg.s) /\ ~MODULE_CODE_RE(arg.s)) =>
              /\ ret.activity_code_fallback = Null
              /\ ret.objective_code_fallback = Null
              /\ ret.module_code_fallback = Null

====
